---- MODULE Spec2Model ----
(***************************************************************************)
(* sigma-permit: master key administration, license issuance and license   *)
(* verification (app/routers/licenses.py, app/crud.py, app/main.py,        *)
(* app/database.py, app/crypto_utils.py).                                  *)
(*                                                                         *)
(* Three specifications share the definitions of this module:              *)
(*   SpecKeys  sequential requests against the master_keys table           *)
(*   SpecConc  requests whose SQL statements interleave on the engine of   *)
(*             app/database.py                                             *)
(*   Spec      issuance and verification of license files                  *)
(***************************************************************************)
EXTENDS Integers, Sequences, FiniteSets, TLC

VARIABLES
    master_keys,    \* committed rows of table master_keys, in storage order
    working,        \* rows as the engine's single connection sees them
    pc,             \* per request thread: position in its handler
    handler,        \* per request thread: the handler it runs
    observed,       \* per request thread: what its query returned
    licenses,       \* table licenses: id -> row
    subscriptions,  \* table subscriptions: id -> row (None when absent)
    now,            \* the instant datetime.now(timezone.utc) returns
    artifact,       \* the license file most recently issued (None at first)
    response,       \* the reply to the most recent request
    LICENSE_FILE_PATH,  \* deployed side: the file the renewal loop keeps (None: no file)
    controller,     \* deployed side: the renewal loop of license_controller/main.py
    validator       \* deployed side: a run of validators/validator.py

vars == <<master_keys, working, pc, handler, observed,
          licenses, subscriptions, now, artifact, response,
          LICENSE_FILE_PATH, controller, validator>>

keyVars == <<master_keys, working, pc, handler, observed>>
licVars == <<licenses, subscriptions, now, artifact>>
clientVars == <<LICENSE_FILE_PATH, controller, validator>>

\* Optional values: None is the empty tuple, a present value x is <<x>>
None == <<>>
Some(x) == <<x>>

(***************************************************************************)
(* Bounds of the model.                                                    *)
(***************************************************************************)
MaxMasterKeys == 3      \* rows the master_keys table may grow to
MaxThreads == 2         \* request threads of the worker pool that are modelled

(***************************************************************************)
(* Key material.  The two halves of RSA pair k are <<"pub", k>> and        *)
(* <<"priv", k>> (base64 of DER in the code); the empty string is <<>>.    *)
(***************************************************************************)
EmptyString == <<>>
Pub(k) == <<"pub", k>>
Priv(k) == <<"priv", k>>

\* the private half priv opens what was made with (or signs for) the public half pub
SamePair(pub, priv) ==
    /\ Len(pub) = 2 /\ Len(priv) = 2
    /\ pub[1] = "pub" /\ priv[1] = "priv" /\ pub[2] = priv[2]

\* pairs an operator may hand to override_master_key
OperatorPairs == {101, 102}

\* generate_rsa_keypair(): a pair no stored row holds (public, private)
generate_rsa_keypair(rows) ==
    LET k == Len(rows) + 1 IN <<Pub(k), Priv(k)>>

MasterKeyRow(id, pub, priv) ==
    [id |-> id, public_key |-> pub, private_key |-> priv, is_active |-> TRUE]

\* db.query(MasterKey).first(): no ORDER BY, the engine scans in storage order
QueryFirst(rows) == IF rows = <<>> THEN None ELSE Some(Head(rows))

\* db.query(MasterKey).filter(MasterKey.is_active == True).first()
QueryFirstActive(rows) ==
    LET act == SelectSeq(rows, LAMBDA r : r.is_active)
    IN IF act = <<>> THEN None ELSE Some(Head(act))

\* a deactivation that reaches only the row .first() returns
DeactivateFirstOnly(rows) ==
    [i \in DOMAIN rows |-> IF i = 1 THEN [rows[i] EXCEPT !.is_active = FALSE] ELSE rows[i]]

\* db.query(MasterKey).filter(is_active == True).update({"is_active": False})
DeactivateAll(rows) ==
    [i \in DOMAIN rows |-> [rows[i] EXCEPT !.is_active = FALSE]]

\* a write that puts the new key pair into the newest row instead of a new row
OverwriteNewestKey(rows, pub, priv) ==
    IF rows = <<>> THEN <<MasterKeyRow(1, pub, priv)>>
    ELSE [rows EXCEPT ![Len(rows)] = MasterKeyRow(Len(rows), pub, priv)]

\* db.add(new_master_key) flushed as INSERT; the id is a fresh uuid4
InsertMasterKey(rows, pub, priv) ==
    Append(rows, MasterKeyRow(Len(rows) + 1, pub, priv))

ActiveRows(rows) == {i \in DOMAIN rows : rows[i].is_active}

(***************************************************************************)
(* datetime.  A datetime is [year, month, day, sec], sec the second of the *)
(* day; every stored or parsed datetime is normalised to UTC by the        *)
(* handlers before it is compared, so no separate tzinfo is kept.          *)
(***************************************************************************)
DT(y, m, d, s) == [year |-> y, month |-> m, day |-> d, sec |-> s]

\* the proleptic Gregorian years the model's instants fall in
Years == 2023 .. 2027

IsLeap(y) == (y % 4 = 0) /\ ((y % 100 # 0) \/ (y % 400 = 0))

\* a month length that takes every February for 28 days
DaysInCommonMonth(y, m) ==
    IF m = 2 THEN 28 ELSE IF m \in {4, 6, 9, 11} THEN 30 ELSE 31

\* calendar.monthrange(year, month)[1]
DaysInMonth(y, m) ==
    IF m = 2 THEN (IF IsLeap(y) THEN 29 ELSE 28)
    ELSE IF m \in {4, 6, 9, 11} THEN 30 ELSE 31

DaysBeforeYear(y) ==
    (y - 1) * 365 + ((y - 1) \div 4) - ((y - 1) \div 100) + ((y - 1) \div 400)

RECURSIVE DaysBeforeMonth(_, _)
DaysBeforeMonth(y, m) ==
    IF m = 1 THEN 0 ELSE DaysBeforeMonth(y, m - 1) + DaysInMonth(y, m - 1)

\* date.toordinal()
ToOrdinal(dt) == DaysBeforeYear(dt.year) + DaysBeforeMonth(dt.year, dt.month) + dt.day

\* date.fromordinal(n), for n inside Years
FromOrdinal(n, s) ==
    LET y == CHOOSE yy \in Years :
                 DaysBeforeYear(yy) < n /\ n <= DaysBeforeYear(yy + 1)
        m == CHOOSE mm \in 1 .. 12 :
                 /\ DaysBeforeMonth(y, mm) < n - DaysBeforeYear(y)
                 /\ n - DaysBeforeYear(y) <= DaysBeforeMonth(y, mm) + DaysInMonth(y, mm)
    IN DT(y, m, n - DaysBeforeYear(y) - DaysBeforeMonth(y, m), s)

\* seconds since 2023-01-01T00:00:00 (the comparisons and differences of
\* datetime are those of this number)
Instant(dt) == (ToOrdinal(dt) - ToOrdinal(DT(2023, 1, 1, 0))) * 86400 + dt.sec

\* (a - b).days: timedelta normalises 0 <= seconds < 86400, so days is the floor
DeltaDays(a, b) == (Instant(a) - Instant(b)) \div 86400

\* dt + timedelta(days=n)
PlusDays(dt, n) == FromOrdinal(ToOrdinal(dt) + n, dt.sec)

\* a <= b on aware datetimes
Le(a, b) == Instant(a) <= Instant(b)

\* dt.replace(year=dt.year + 1): ValueError when the day does not exist there
ReplaceYearRaises(dt) == dt.day > DaysInMonth(dt.year + 1, dt.month)
ReplaceYear(dt) == [dt EXCEPT !.year = dt.year + 1]

\* datetime.isoformat(): "YYYY-MM-DDTHH:MM:SS" as its fields
IsoFormat(dt) ==
    <<dt.year, dt.month, dt.day,
      dt.sec \div 3600, (dt.sec % 3600) \div 60, dt.sec % 60>>

\* datetime.fromisoformat(text)
FromIsoFormat(t) == DT(t[1], t[2], t[3], t[4] * 3600 + t[5] * 60 + t[6])

(***************************************************************************)
(* crypto_utils: signatures and hybrid encryption, symbolically.           *)
(***************************************************************************)
\* sign_payload(payload, license_secret): RSA-PSS over the payload's bytes
sign_payload(payload, license_secret) ==
    [signed |-> payload, by |-> license_secret, padding |-> "PSS"]

\* a verification that compares the signed text only
VerifyTextOnly(payload, signature, license_key) == signature.signed = payload

\* verify_signature(payload, signature, license_key)
verify_signature(payload, signature, license_key) ==
    /\ signature.padding = "PSS"
    /\ SamePair(license_key, signature.by)
    /\ signature.signed = payload

\* hybrid_encrypt(data, rsa_public_key_b64): wrapped AES key ":" IV, tag, ciphertext
hybrid_encrypt(data, rsa_public_key) ==
    [wrapped_for |-> rsa_public_key, sealed |-> data]

\* hybrid_decrypt raises when the private key does not unwrap the AES key
hybrid_decrypt_raises(encrypted, rsa_private_key) ==
    ~SamePair(encrypted.wrapped_for, rsa_private_key)
hybrid_decrypt(encrypted, rsa_private_key) == encrypted.sealed

(***************************************************************************)
(* json.  Python values are tagged with their type; a JSON text is the     *)
(* separators it was written with and its literals in document order.      *)
(***************************************************************************)
PyNone == [t |-> "NoneType"]
PyInt(n) == [t |-> "int", v |-> n]
PyStr(x) == [t |-> "str", v |-> x]
PyDict(items) == [t |-> "dict", v |-> items]     \* items: <<key, value>> in insertion order
PyList == [t |-> "list", v |-> <<>>]             \* the empty list
PyNaN == [t |-> "float"]                         \* float('nan')

Compact == <<",", ":">>

RECURSIVE JsonLiteral(_)
JsonLiteral(v) ==
    CASE v.t = "NoneType" -> <<"null">>
      [] v.t = "int" -> <<"num", v.v>>
      [] v.t = "str" -> <<"str", v.v>>
      [] v.t = "list" -> <<"arr">>
      [] v.t = "float" -> <<"NaN">>
      [] v.t = "dict" ->
           <<"obj", [i \in DOMAIN v.v |-> <<v.v[i][1], JsonLiteral(v.v[i][2])>>]>>

\* json.dumps(v, separators=...)
JsonDumps(v, separators) == [separators |-> separators, text |-> JsonLiteral(v)]

RECURSIVE PyValue(_)
PyValue(j) ==
    CASE j[1] = "null" -> PyNone
      [] j[1] = "num" -> PyInt(j[2])
      [] j[1] = "str" -> PyStr(j[2])
      [] j[1] = "arr" -> PyList
      [] j[1] = "NaN" -> PyNaN
      [] j[1] = "obj" ->
           PyDict([i \in DOMAIN j[2] |-> <<j[2][i][1], PyValue(j[2][i][2])>>])

\* a text that is not JSON
NotJson == [separators |-> Compact, text |-> <<"raw">>]

\* json.loads(text): JSONDecodeError on a text that is not JSON
JsonLoadsRaises(doc) == doc.text[1] = "raw"
JsonLoads(doc) == PyValue(doc.text)

\* the value holds a NaN somewhere
RECURSIVE HasNaN(_)
HasNaN(v) ==
    \/ v.t = "float"
    \/ v.t = "dict" /\ \E i \in DOMAIN v.v : HasNaN(v.v[i][2])

\* key in d
DictHas(d, key) == \E i \in DOMAIN d.v : d.v[i][1] = key

\* d[key] / d.get(key): the value, None when the key is absent
DictGet(d, key) ==
    IF DictHas(d, key)
    THEN d.v[CHOOSE i \in DOMAIN d.v : d.v[i][1] = key][2]
    ELSE PyNone

\* Optional field of a row as a Python value
OptStr(o) == IF o = None THEN PyNone ELSE PyStr(o[1])
OptInt(o) == IF o = None THEN PyNone ELSE PyInt(o[1])

(***************************************************************************)
(* Tables read by issuance and verification.                               *)
(***************************************************************************)
\* plan_definitions: billing_interval is Enum('monthly', 'yearly'); plan id
\* "P_gone" names no row (update_subscription stores any plan_id it is given)
PlanIds == {"P_month", "P_year", "P_gone"}

\* crud.get_plan_definition(db, plan_id)
get_plan_definition(plan_id) ==
    CASE plan_id = "P_month" -> Some([billing_interval |-> "monthly"])
      [] plan_id = "P_year" -> Some([billing_interval |-> "yearly"])
      [] OTHER -> None

SubscriptionStatus == {"active", "trialing", "past_due", "canceled"}

\* crud.get_subscription(db, subscription_id)
get_subscription(subs, subscription_id) ==
    IF subscription_id \in DOMAIN subs THEN subs[subscription_id] ELSE None

\* rows a tenant may own (tenants.max_licenses of the one tenant row)
MaxLicenses == 3

\* crud.get_tenant(db, tenant_id): one tenant row, active
get_tenant(tenant_id) ==
    IF tenant_id = "T1" THEN Some([is_active |-> TRUE, max_licenses |-> MaxLicenses])
    ELSE None

\* db.query(License).filter(License.license_key == key).first()
QueryLicenseByKey(lics, key) ==
    LET hit == {id \in DOMAIN lics : lics[id].license_key = key}
    IN IF hit = {} THEN None ELSE Some(lics[CHOOSE id \in hit : TRUE])

\* a status test that also lets a trial through
ActiveOrTrialing(subscription) == subscription.status \in {"active", "trialing"}

\* subscription.status == "active" (licenses.py lines 455 and 619)
SubscriptionIsActive(subscription) == subscription.status = "active"

Window(raised, days, expiry) ==
    [raised |-> raised, validity_days |-> days, expiry |-> expiry]

(***************************************************************************)
(* crud.create_license: the dates a new row gets from its subscription.    *)
(***************************************************************************)
CreateValidityDays(subscription) ==
    IF subscription.end_date # None
    THEN DeltaDays(subscription.end_date[1], subscription.issue_date)
    ELSE LET plan == get_plan_definition(subscription.plan_id) IN
         IF plan = None THEN 30
         ELSE IF plan[1].billing_interval = "monthly"
              THEN DaysInMonth(subscription.issue_date.year, subscription.issue_date.month)
         ELSE IF plan[1].billing_interval = "yearly"
              THEN DeltaDays(ReplaceYear(subscription.issue_date), subscription.issue_date)
         ELSE 30

(***************************************************************************)
(* issue_license_file, lines 203-233: validity_days and expires_at.        *)
(* expiry holds the isoformat text written to the artifact.                *)
(***************************************************************************)
IssueWindow(db_license, subs) ==
    LET stored == Window("", db_license.validity_days, None) IN
    IF db_license.linked_subscription = None THEN stored
    ELSE LET found == get_subscription(subs, db_license.linked_subscription[1]) IN
    IF found = None THEN stored
    ELSE LET subscription == found[1] IN
    IF subscription.end_date # None
    THEN Window("", Some(DeltaDays(subscription.end_date[1], subscription.issue_date)),
                Some(IsoFormat(subscription.end_date[1])))
    ELSE LET plan == get_plan_definition(subscription.plan_id) IN
    IF plan = None THEN stored
    ELSE IF plan[1].billing_interval = "yearly" /\ ReplaceYearRaises(subscription.issue_date)
         THEN Window("ValueError", None, None)
    ELSE LET days ==
               IF plan[1].billing_interval = "monthly"
               THEN Some(DaysInMonth(subscription.issue_date.year,
                                     subscription.issue_date.month))
               ELSE IF plan[1].billing_interval = "yearly"
               THEN Some(DeltaDays(ReplaceYear(subscription.issue_date),
                                   subscription.issue_date))
               ELSE db_license.validity_days
         IN IF days = None THEN Window("TypeError", None, None)
            ELSE Window("", days,
                        Some(IsoFormat(PlusDays(subscription.issue_date, days[1] - 1))))

(***************************************************************************)
(* validate_license_file, lines 606-699: the validity step.                *)
(***************************************************************************)
\* "from datetime import timedelta" sits inside the handler (lines 626, 643),
\* which makes timedelta a local name of validate_license_file: it is bound
\* only once one of those two statements has run in the current call.
TimedeltaBound(branch) == branch \in {"end_date", "yearly"}

FileCheck(validity, raised, days, expiry) ==
    [validity |-> validity, raised |-> raised, validity_days |-> days, expiry |-> expiry]

\* a validity step that trusts the expiry written into the artifact
BakedInValidity(license_info, subs, at) ==
    IF DictHas(license_info, "expires_at")
       /\ Le(at, FromIsoFormat(DictGet(license_info, "expires_at").v))
    THEN FileCheck("valid", "", None, None)
    ELSE FileCheck("invalid", "", None, None)

FileValidity(license_info, subs, at) ==
    LET linked == DictGet(license_info, "linked_subscription") IN
    IF linked.t = "str" /\ linked.v # ""
    THEN \* lines 616-665
         LET found == get_subscription(subs, linked.v) IN
         IF found = None THEN FileCheck("invalid", "", None, None)
         ELSE LET subscription == found[1] IN
         IF ~SubscriptionIsActive(subscription) THEN FileCheck("invalid", "", None, None)
         ELSE IF subscription.end_date # None
         THEN \* lines 625-631: the expiry is computed and never compared
              FileCheck("invalid", "",
                        Some(DeltaDays(subscription.end_date[1], subscription.issue_date)),
                        Some(subscription.end_date[1]))
         ELSE LET plan == get_plan_definition(subscription.plan_id) IN
         IF plan = None THEN FileCheck("invalid", "", None, None)
         ELSE LET interval == plan[1].billing_interval IN
         IF interval = "yearly" /\ ReplaceYearRaises(subscription.issue_date)
         THEN FileCheck("invalid", "ValueError", None, None)
         ELSE LET days ==
                    IF interval = "monthly"
                    THEN DaysInMonth(subscription.issue_date.year,
                                     subscription.issue_date.month)
                    ELSE IF interval = "yearly"
                    THEN DeltaDays(ReplaceYear(subscription.issue_date),
                                   subscription.issue_date)
                    ELSE 30
              IN IF ~TimedeltaBound(interval)
                 THEN FileCheck("invalid", "UnboundLocalError", Some(days), None)
                 ELSE LET expiry_date == PlusDays(subscription.issue_date, days - 1) IN
                      FileCheck(IF Le(at, expiry_date) THEN "valid" ELSE "invalid",
                                "", Some(days), Some(expiry_date))
    ELSE \* lines 667-695
         IF DictHas(license_info, "issued_at") /\ DictHas(license_info, "validity_days")
         THEN LET issued_at_str == DictGet(license_info, "issued_at")
                  validity_days == DictGet(license_info, "validity_days")
              IN IF issued_at_str.t # "str"
                 THEN FileCheck("invalid", "ValueError", None, None)
                 ELSE IF ~TimedeltaBound("standard")
                 THEN FileCheck("invalid", "UnboundLocalError", None, None)
                 ELSE IF validity_days.t # "int"
                 THEN FileCheck("invalid", "TypeError", None, None)
                 ELSE LET expiry_date ==
                              PlusDays(FromIsoFormat(issued_at_str.v), validity_days.v - 1)
                      IN FileCheck(IF Le(at, expiry_date) THEN "valid" ELSE "invalid",
                                   "", Some(validity_days.v), Some(expiry_date))
         ELSE FileCheck("invalid", "", None, None)

(***************************************************************************)
(* validate_license, lines 439-532: the record-based check.                *)
(***************************************************************************)
\* lines 440 and 495/502: inside the handler datetime names the class
\* datetime.datetime, which has no attribute timedelta
DatetimeHasTimedelta == FALSE

RecordCheck(valid, raised, days, expiry) ==
    [valid |-> valid, raised |-> raised, validity_days |-> days, expiry |-> expiry]

RecordValidity(db_license, subs, at) ==
    IF db_license.linked_subscription # None
    THEN LET found == get_subscription(subs, db_license.linked_subscription[1]) IN
         IF found = None THEN RecordCheck(FALSE, "", None, None)
         ELSE LET subscription == found[1] IN
         IF ~SubscriptionIsActive(subscription) THEN RecordCheck(FALSE, "", None, None)
         ELSE IF subscription.end_date # None
         THEN LET days == DeltaDays(subscription.end_date[1], subscription.issue_date)
                  expiry_date == subscription.end_date[1]
              IN RecordCheck(Le(at, expiry_date), "", Some(days), Some(expiry_date))
         ELSE LET plan == get_plan_definition(subscription.plan_id) IN
         IF plan # None /\ plan[1].billing_interval = "yearly"
                        /\ ReplaceYearRaises(subscription.issue_date)
         THEN RecordCheck(FALSE, "ValueError", None, None)
         ELSE LET days ==
                    IF plan = None THEN db_license.validity_days
                    ELSE IF plan[1].billing_interval = "monthly"
                    THEN Some(DaysInMonth(subscription.issue_date.year,
                                          subscription.issue_date.month))
                    ELSE IF plan[1].billing_interval = "yearly"
                    THEN Some(DeltaDays(ReplaceYear(subscription.issue_date),
                                        subscription.issue_date))
                    ELSE Some(30)
              IN IF ~DatetimeHasTimedelta
                 THEN RecordCheck(FALSE, "AttributeError", days, None)
                 ELSE IF days = None THEN RecordCheck(FALSE, "TypeError", None, None)
                 ELSE LET expiry_date == PlusDays(subscription.issue_date, days[1] - 1)
                      IN RecordCheck(Le(at, expiry_date), "", days, Some(expiry_date))
    ELSE \* lines 497-502
         IF db_license.issued_at = None \/ ~DatetimeHasTimedelta
         THEN RecordCheck(FALSE, "AttributeError", db_license.validity_days, None)
         ELSE IF db_license.validity_days = None
         THEN RecordCheck(FALSE, "TypeError", None, None)
         ELSE LET expiry_date ==
                      PlusDays(db_license.issued_at[1], db_license.validity_days[1])
              IN RecordCheck(Le(at, expiry_date), "", db_license.validity_days,
                             Some(expiry_date))

(***************************************************************************)
(* crud.get_license_with_tenant, lines 229-252: validity_days of a read.   *)
(***************************************************************************)
ReadWindow(license, subs) ==
    LET stored == Window("", license.validity_days, None) IN
    IF license.linked_subscription = None THEN stored
    ELSE LET found == get_subscription(subs, license.linked_subscription[1]) IN
    IF found = None THEN stored
    ELSE LET subscription == found[1] IN
    IF subscription.end_date # None
    THEN Window("", Some(DeltaDays(subscription.end_date[1], subscription.issue_date)), None)
    ELSE LET plan == get_plan_definition(subscription.plan_id) IN
    IF plan = None THEN stored
    ELSE IF plan[1].billing_interval = "monthly"
    THEN Window("", Some(DaysInMonth(subscription.issue_date.year,
                                     subscription.issue_date.month)), None)
    ELSE IF plan[1].billing_interval = "yearly"
    THEN IF ReplaceYearRaises(subscription.issue_date)
         THEN Window("ValueError", None, None)
         ELSE Window("", Some(DeltaDays(ReplaceYear(subscription.issue_date),
                                        subscription.issue_date)), None)
    ELSE stored

(***************************************************************************)
(* Requests and their inputs.                                              *)
(***************************************************************************)
\* base64.b64encode(text) / base64.b64decode(text).decode('utf-8')
B64Encode(text) == <<"b64", text>>
B64DecodeRaises(text) == ~(Len(text) = 2 /\ text[1] = "b64")
B64Decode(text) == text[2]

NoResponse == [op |-> "none"]

Tenant1 == "T1"
Payload1 == PyDict(<<<<"seats", PyInt(5)>>, <<"edition", PyStr("pro")>>>>)
Payload2 == PyDict(<<<<"nodes", PyInt(2)>>>>)

LicenseRow(id, pair, linked, issued_at, validity_days, payload) ==
    [id |-> id, license_key |-> Pub(pair), license_secret |-> Priv(pair),
     tenant_id |-> Tenant1, linked_subscription |-> linked,
     issued_at |-> issued_at, validity_days |-> validity_days, payload |-> payload]

SubscriptionRow(status, issue_date, end_date, plan_id) ==
    [status |-> status, issue_date |-> issue_date, end_date |-> end_date,
     plan_id |-> plan_id]

\* instants and values the requests of the model carry
IssueDates == {DT(2024, 1, 1, 86399), DT(2024, 2, 29, 43200)}
EndDates == {DT(2024, 6, 30, 0)}
Clock == {DT(2024, 1, 30, 43200), DT(2024, 1, 31, 1),
          DT(2024, 12, 31, 86399), DT(2025, 1, 1, 0)}
SubscriptionIds == {"S1", "S2"}

(***************************************************************************)
(* issue_license_file, lines 184-282.                                      *)
(***************************************************************************)
\* lines 236-250: the claims object, keys in insertion order
LicenseClaims(db_license, window) ==
    PyDict(<<<<"id", PyStr(db_license.id)>>,
             <<"tenant_id", PyStr(db_license.tenant_id)>>,
             <<"linked_subscription", OptStr(db_license.linked_subscription)>>,
             <<"issued_at", IF db_license.issued_at = None THEN PyNone
                            ELSE PyStr(IsoFormat(db_license.issued_at[1]))>>,
             <<"validity_days", OptInt(window.validity_days)>>,
             <<"payload", db_license.payload>>>>
           \o (IF window.expiry = None THEN <<>>
               ELSE <<<<"expires_at", PyStr(window.expiry[1])>>>>))

\* lines 252-266: sign the claims, seal claims and signature for the master key
SealedFile(db_license, window, master_key_record) ==
    LET claims == LicenseClaims(db_license, window)
        license_json == JsonDumps(claims, Compact)
        signature == sign_payload(license_json, db_license.license_secret)
        complete_json == JsonDumps(PyDict(<<<<"license", claims>>,
                                            <<"signature", PyStr(signature)>>>>), Compact)
    IN hybrid_encrypt(complete_json, master_key_record.public_key)

\* the master key row issue_license_file encrypts for (line 262)
IssueMasterKey(rows) == QueryFirst(rows)

IssueReply(encoded_license_key, lics, subs, rows) ==
    LET reply(status, file) ==
            [op |-> "issue_license_file", status |-> status,
             license_key |-> encoded_license_key, file |-> file]
    IN IF B64DecodeRaises(encoded_license_key) THEN reply(400, None)
       ELSE LET found == QueryLicenseByKey(lics, B64Decode(encoded_license_key)) IN
       IF found = None THEN reply(404, None)
       ELSE LET window == IssueWindow(found[1], subs)
                master_key_record == IssueMasterKey(rows)
            IN IF window.raised # "" THEN reply(500, None)
               ELSE IF master_key_record = None THEN reply(500, None)
               ELSE reply(200, Some(SealedFile(found[1], window, master_key_record[1])))

IssueLicenseFile(encoded_license_key) ==
    LET r == IssueReply(encoded_license_key, licenses, subscriptions, master_keys) IN
    /\ response' = r
    /\ artifact' = IF r.status = 200 THEN r.file ELSE artifact
    /\ UNCHANGED <<keyVars, licenses, subscriptions, now>>
    /\ UNCHANGED clientVars

(***************************************************************************)
(* validate_license_file, lines 534-715.                                   *)
(***************************************************************************)
\* the master key row validate_license_file decrypts with (line 579)
ValidateMasterKey(rows) == QueryFirst(rows)

\* json.dumps with its default separators (', ', ': ')
SpacedText(license_info) == JsonDumps(license_info, <<", ", ": ">>)

\* line 600: the text whose signature is verified
VerifiedText(license_info) == JsonDumps(license_info, Compact)

FileReport(parsing, validity, signature, license_info, error, check) ==
    [op |-> "validate_license_file", parsing |-> parsing, validity |-> validity,
     signature |-> signature, license_info |-> license_info, error |-> error,
     check |-> check]

\* a failure report that still carries an (empty) license object
FailedWithEmptyInfo(error) ==
    FileReport("failed", "invalid", "verification_failed", Some(PyDict(<<>>)), error,
               FileCheck("invalid", "", None, None))

FileFailed(error) ==
    FileReport("failed", "invalid", "verification_failed", None, error,
               FileCheck("invalid", "", None, None))

\* an exception that leaves the handler: no report, HTTP 500
Propagate(exception) ==
    FileReport("unset", "unset", "unset", None, exception,
               FileCheck("invalid", exception, None, None))

\* lines 709-715: the handler's outermost except turns any exception into a report
CatchAll(exception) == FileFailed("Unexpected error")

\* lines 702-707: the returned dict is rendered as the JSON response after the
\* handler has returned (json.dumps with allow_nan=False): a NaN in
\* license_info raises ValueError there, outside the handler's try
Rendered(report) ==
    IF report.license_info # None /\ HasNaN(report.license_info[1])
    THEN Propagate("ValueError")
    ELSE report

ValidateFileReply(license_key, file, lics, subs, rows, at) ==
    IF B64DecodeRaises(license_key) THEN FileFailed("Invalid base64 license key")
    ELSE LET found == QueryLicenseByKey(lics, B64Decode(license_key)) IN
    IF found = None THEN FileFailed("License key not found in database")
    ELSE LET db_license == found[1]
             master_key_record == ValidateMasterKey(rows)
         IN
    IF master_key_record = None THEN FileFailed("Master key not configured")
    ELSE IF hybrid_decrypt_raises(file, master_key_record[1].private_key)
    THEN FileFailed("Failed to decrypt or parse license file")
    ELSE IF JsonLoadsRaises(hybrid_decrypt(file, master_key_record[1].private_key))
    THEN FileFailed("Failed to decrypt or parse license file")
    ELSE LET license_data == JsonLoads(hybrid_decrypt(file, master_key_record[1].private_key)) IN
    \* a document that is not an object: `"license" in license_data` (line 599)
    \* or license_data.get (line 706) raises
    IF license_data.t = "list" THEN CatchAll("AttributeError")
    ELSE IF license_data.t # "dict" THEN CatchAll("TypeError")
    ELSE LET has_license == DictHas(license_data, "license")
             license_info == DictGet(license_data, "license")
             signature_status ==
                 IF has_license /\ DictHas(license_data, "signature")
                 THEN \* a signature that is not text makes b64decode raise inside
                      \* verify_signature's try: False
                      IF /\ DictGet(license_data, "signature").t = "str"
                         /\ verify_signature(VerifiedText(license_info),
                                             DictGet(license_data, "signature").v,
                                             db_license.license_key)
                      THEN "verified" ELSE "verification_failed"
                 ELSE "verification_failed"
             check == IF ~has_license THEN FileCheck("invalid", "", None, None)
                      \* license_info.get on a value that is not an object
                      \* raises AttributeError, caught at line 697
                      ELSE IF license_info.t # "dict"
                      THEN FileCheck("invalid", "AttributeError", None, None)
                      ELSE FileValidity(license_info, subs, at)
         IN Rendered(FileReport("success", check.validity, signature_status,
                                IF has_license THEN Some(license_info)
                                ELSE Some(PyDict(<<>>)),
                                "", check))

ValidateLicenseFile(license_key) ==
    /\ artifact # None
    /\ response' = ValidateFileReply(license_key, artifact[1], licenses, subscriptions,
                                     master_keys, now)
                   @@ [license_key |-> license_key]
    /\ UNCHANGED <<keyVars, licVars>>
    /\ UNCHANGED clientVars

(***************************************************************************)
(* validate_license, lines 418-532.                                        *)
(***************************************************************************)
ValidateReply(license_key, lics, subs, at) ==
    LET reply(status, valid, check) ==
            [op |-> "validate_license", status |-> status, valid |-> valid,
             license_key |-> license_key, check |-> check]
        found == QueryLicenseByKey(lics, license_key)
    IN IF found = None THEN reply(404, FALSE, RecordCheck(FALSE, "", None, None))
       ELSE LET tenant == get_tenant(found[1].tenant_id) IN
       IF tenant = None \/ ~tenant[1].is_active
       THEN reply(200, FALSE, RecordCheck(FALSE, "", None, None))
       ELSE LET check == RecordValidity(found[1], subs, at) IN
            \* line 531: any exception becomes HTTP 500
            IF check.raised # "" THEN reply(500, FALSE, check)
            ELSE reply(200, check.valid, check)

ValidateLicense(license_key) ==
    /\ response' = ValidateReply(license_key, licenses, subscriptions, now)
    /\ UNCHANGED <<keyVars, licVars>>
    /\ UNCHANGED clientVars

(***************************************************************************)
(* read_license -> crud.get_license_with_tenant.                           *)
(***************************************************************************)
ReadReply(license_id, lics, subs) ==
    LET reply(status, window) ==
            [op |-> "read_license", status |-> status, license_id |-> license_id,
             window |-> window]
    IN IF license_id \notin DOMAIN lics THEN reply(404, Window("", None, None))
       ELSE LET window == ReadWindow(lics[license_id], subs) IN
            IF window.raised # "" THEN reply(500, window) ELSE reply(200, window)

ReadLicense(license_id) ==
    /\ response' = ReadReply(license_id, licenses, subscriptions)
    /\ UNCHANGED <<keyVars, licVars>>
    /\ UNCHANGED clientVars

(***************************************************************************)
(* update_subscription (crud.py 699-711) and update_license (144-152):     *)
(* every field the request sets is stored as given.                        *)
(***************************************************************************)
ApplyUpdate(row, update_data) ==
    [f \in DOMAIN row |-> IF f \in DOMAIN update_data THEN update_data[f] ELSE row[f]]

SubscriptionUpdates ==
    {[status |-> s] : s \in SubscriptionStatus}
    \cup {[issue_date |-> d] : d \in IssueDates}
    \cup {[end_date |-> e] : e \in {None} \cup {Some(d) : d \in EndDates}}
    \cup {[plan_id |-> p] : p \in PlanIds}

UpdateSubscription(subscription_id, update_data) ==
    /\ IF get_subscription(subscriptions, subscription_id) = None
       THEN /\ response' = [op |-> "update_subscription", status |-> 404]
            /\ UNCHANGED subscriptions
       ELSE /\ subscriptions' =
                  [subscriptions EXCEPT ![subscription_id] =
                       Some(ApplyUpdate(subscriptions[subscription_id][1], update_data))]
            /\ response' = [op |-> "update_subscription", status |-> 200]
    /\ UNCHANGED <<keyVars, licenses, now, artifact>>
    /\ UNCHANGED clientVars

LicenseUpdates ==
    {[linked_subscription |-> l] : l \in {None} \cup {Some(s) : s \in SubscriptionIds}}

UpdateLicense(license_id, update_data) ==
    /\ IF license_id \notin DOMAIN licenses
       THEN /\ response' = [op |-> "update_license", status |-> 404]
            /\ UNCHANGED licenses
       ELSE /\ licenses' = [licenses EXCEPT ![license_id] =
                                ApplyUpdate(licenses[license_id], update_data)]
            /\ response' = [ReadReply(license_id, licenses', subscriptions)
                            EXCEPT !.op = "update_license"]
    /\ UNCHANGED <<keyVars, subscriptions, now, artifact>>
    /\ UNCHANGED clientVars

\* time passes between requests
Tick(later) ==
    /\ Instant(later) > Instant(now)
    /\ now' = later
    /\ response' = NoResponse
    /\ UNCHANGED <<keyVars, licenses, subscriptions, artifact>>
    /\ UNCHANGED clientVars

(***************************************************************************)
(* Master key administration, one request at a time.                       *)
(***************************************************************************)
\* a sequential request leaves the connection with nothing uncommitted
Committed(rows) ==
    /\ master_keys' = rows
    /\ working' = rows
    /\ UNCHANGED <<pc, handler, observed>>

\* the app serves requests once lifespan has run its startup part
Serving == master_keys # <<>>

\* app/main.py lifespan, lines 23-36
Lifespan ==
    /\ IF QueryFirst(master_keys) = None
       THEN LET pair == generate_rsa_keypair(master_keys)
            IN Committed(InsertMasterKey(master_keys, pair[1], pair[2]))
       ELSE Committed(master_keys)
    /\ response' = [op |-> "lifespan", status |-> 200]
    /\ UNCHANGED licVars
    /\ UNCHANGED clientVars

\* rotate_master_key, lines 98-129
RotateMasterKey(is_superuser) ==
    /\ Serving
    /\ Len(master_keys) < MaxMasterKeys
    /\ IF ~is_superuser
       THEN /\ Committed(master_keys)
            /\ response' = [op |-> "rotate_master_key", status |-> 403]
       ELSE LET pair == generate_rsa_keypair(master_keys)
                rows == InsertMasterKey(DeactivateAll(master_keys), pair[1], pair[2])
            IN /\ Committed(rows)
               /\ response' = [op |-> "rotate_master_key", status |-> 200]
    /\ UNCHANGED licVars
    /\ UNCHANGED clientVars

\* a check that turns the body down only when both keys are empty
BothEmpty(public_key, private_key) ==
    public_key = EmptyString /\ private_key = EmptyString

\* lines 142-143: not public_key or not private_key
EitherEmpty(public_key, private_key) ==
    public_key = EmptyString \/ private_key = EmptyString

\* override_master_key, lines 131-167
OverrideMasterKey(is_superuser, public_key, private_key) ==
    /\ Serving
    /\ Len(master_keys) < MaxMasterKeys
    /\ IF ~is_superuser
       THEN /\ Committed(master_keys)
            /\ response' = [op |-> "override_master_key", status |-> 403]
       ELSE IF EitherEmpty(public_key, private_key)
       THEN /\ Committed(master_keys)
            /\ response' = [op |-> "override_master_key", status |-> 400]
       ELSE LET rows == InsertMasterKey(DeactivateAll(master_keys), public_key, private_key)
            IN /\ Committed(rows)
               /\ response' = [op |-> "override_master_key", status |-> 200]
    /\ UNCHANGED licVars
    /\ UNCHANGED clientVars

\* get_current_master_private_key, lines 169-181
GetCurrentMasterPrivateKey(is_superuser) ==
    /\ Serving
    /\ response' =
          IF ~is_superuser
          THEN [op |-> "get_current_master_private_key", status |-> 403,
                private_key |-> None]
          ELSE LET master_key_record == QueryFirstActive(master_keys) IN
               IF master_key_record = None
               THEN [op |-> "get_current_master_private_key", status |-> 404,
                     private_key |-> None]
               ELSE [op |-> "get_current_master_private_key", status |-> 200,
                     private_key |-> Some(master_key_record[1].private_key)]
    /\ UNCHANGED <<keyVars, licVars>>
    /\ UNCHANGED clientVars

(***************************************************************************)
(* Renewal controller, license_controller/main.py: one asyncio task that   *)
(* checks the local license file, fetches a new one when needed and        *)
(* sleeps.  The server behind FETCH_URL and the file system are the        *)
(* environment: a fetch and a write take one of the outcomes below.        *)
(***************************************************************************)
\* license_controller/config.py: the defaults of the two settings
RENEW_THRESHOLD_DAYS == 7
CHECK_INTERVAL_SECONDS == 86400

\* the last instant of the model's clock
ControllerHorizon == DT(2024, 2, 1, 43200)

\* common/models.py: the fields SignedLicense declares
SignedLicenseFields == {"encrypted_payload", "signature"}

\* SignedLicense(**license_data): TypeError unless license_data is a mapping,
\* ValidationError unless every declared field is there as a string; keys
\* that are not declared fields are ignored
SignedLicenseRaises(license_data) ==
    IF license_data.t # "dict" THEN "TypeError"
    ELSE IF \E f \in SignedLicenseFields :
                ~DictHas(license_data, f) \/ DictGet(license_data, f).t # "str"
    THEN "ValidationError"
    ELSE ""
SignedLicense(license_data) ==
    [f \in SignedLicenseFields |-> DictGet(license_data, f)]

\* days_until(expiry_iso): (isoparse(expiry_iso) - utcnow()).days
days_until(expiry_iso, at) == DeltaDays(FromIsoFormat(expiry_iso), at)

\* lines 14-27: remaining days of the local file, -1 when the file is missing
\* or anything raises
ReadRemaining(file, at) ==
    LET result(remaining, raised) == [remaining |-> remaining, raised |-> raised] IN
    IF file = None THEN result(-1, "")
    ELSE IF JsonLoadsRaises(file[1]) THEN result(-1, "JSONDecodeError")
    ELSE LET license_data == JsonLoads(file[1]) IN
    IF SignedLicenseRaises(license_data) # ""
    THEN result(-1, SignedLicenseRaises(license_data))
    ELSE LET signed == SignedLicense(license_data) IN
    \* line 22: .payload is looked up among the attributes of the model
    IF "payload" \notin DOMAIN signed THEN result(-1, "AttributeError")
    ELSE LET license_json == signed["payload"] IN
    IF license_json.t # "dict" \/ DictGet(license_json, "expires_at").t # "str"
    THEN result(-1, "AttributeError")
    ELSE result(days_until(DictGet(license_json, "expires_at").v, at), "")

\* line 29
NeedsFetch(remaining) == remaining < 0 \/ remaining <= RENEW_THRESHOLD_DAYS

\* the claims a license carries for the deployed side
LicensePayload(expires_at) ==
    PyDict(<<<<"customer_id", PyStr("acme")>>,
             <<"expires_at", PyStr(IsoFormat(expires_at))>>,
             <<"features", PyList>>>>)

\* license values: a SignedLicense (the payload sealed for the holder), the
\* same with the payload also in the clear, and a payload with a signature
SealedPayload(expires_at) == PyStr([sealed |-> LicensePayload(expires_at)])
LicenseValue(shape, expires_at) ==
    PyDict((IF shape \in {"signed", "both"}
            THEN <<<<"encrypted_payload", SealedPayload(expires_at)>>>> ELSE <<>>)
           \o <<<<"signature", PyStr("sig")>>>>
           \o (IF shape \in {"clear", "both"}
               THEN <<<<"payload", LicensePayload(expires_at)>>>> ELSE <<>>))

ExpiryDates == {DT(2024, 2, 3, 0), DT(2024, 12, 31, 0)}
LicenseValues ==
    {LicenseValue(shape, e) : shape \in {"signed", "both", "clear"}, e \in ExpiryDates}

\* json.dump(new_lic, f): the default separators
JsonDump(v) == JsonDumps(v, <<", ", ": ">>)

\* a file cut short (also the empty file open(path, "w") leaves behind)
Truncated == [separators |-> <<", ", ": ">>, text |-> <<"raw">>]

\* what requests.post does: it raises, or returns a response
FetchOutcome(raised, status_code, text) ==
    [raised |-> raised, status_code |-> status_code, text |-> text]
FetchOutcomes ==
    {FetchOutcome(e, 0, NotJson) : e \in {"Timeout", "ConnectionError"}}
    \cup {FetchOutcome("", s, t) :
             s \in {200, 500},
             t \in {NotJson, JsonDumps(PyList, Compact)}
                   \cup {JsonDumps(v, Compact) : v \in LicenseValues}}

\* what lines 38-39 do to the file: open() raises and leaves it alone,
\* json.dump raises after open() has emptied it, or the text is written
WriteOutcomes == {"open raises", "dump raises", "written"}

\* a fetch that opens the file for writing before it has looked at the response
OpenBeforeStatus(file, resp, write) ==
    IF resp.raised # "" THEN file
    ELSE IF resp.status_code # 200 \/ JsonLoadsRaises(resp.text) THEN Some(Truncated)
    ELSE Some(JsonDump(JsonLoads(resp.text)))

\* lines 31-44: the file after a fetch with the given outcomes
AfterFetch(file, resp, write) ==
    IF resp.raised # "" THEN file
    ELSE IF resp.status_code # 200 THEN file
    ELSE IF JsonLoadsRaises(resp.text) THEN file
    ELSE IF write = "open raises" THEN file
    ELSE IF write = "dump raises" THEN Some(Truncated)
    ELSE Some(JsonDump(JsonLoads(resp.text)))

\* a loop in which an exception of the write leaves the try block
WriteErrorEscapes(resp, write) ==
    IF resp.raised = "" /\ resp.status_code = 200 /\ ~JsonLoadsRaises(resp.text)
       /\ write # "written"
    THEN "stopped" ELSE "sleep"

\* lines 31-45: where the loop goes after a fetch; the except of line 43
\* catches whatever the try block raises, and line 45 follows it
AfterRenew(resp, write) == "sleep"

ControllerState(pc_, remaining, before, fetches, resp) ==
    [pc |-> pc_, remaining |-> remaining, before |-> before, fetches |-> fetches,
     resp |-> resp]

\* lines 14-27
ControllerCheck ==
    /\ controller.pc = "check"
    /\ controller' = ControllerState("renew",
                                     ReadRemaining(LICENSE_FILE_PATH, now).remaining,
                                     LICENSE_FILE_PATH, 0, None)
    /\ UNCHANGED <<keyVars, licVars, response, LICENSE_FILE_PATH, validator>>

\* lines 29-44
ControllerRenew ==
    /\ controller.pc = "renew"
    /\ IF NeedsFetch(controller.remaining)
       THEN \E resp \in FetchOutcomes, write \in WriteOutcomes :
               /\ LICENSE_FILE_PATH' = AfterFetch(LICENSE_FILE_PATH, resp, write)
               /\ controller' = [controller EXCEPT !.pc = AfterRenew(resp, write),
                                                   !.fetches = @ + 1,
                                                   !.resp = Some(resp)]
       ELSE /\ controller' = [controller EXCEPT !.pc = "sleep"]
            /\ UNCHANGED LICENSE_FILE_PATH
    /\ UNCHANGED <<keyVars, licVars, response, validator>>

\* line 45: asyncio.sleep(CHECK_INTERVAL_SECONDS); the clock of the model stops
\* at ControllerHorizon
ControllerSleep ==
    /\ controller.pc = "sleep"
    /\ controller' = [controller EXCEPT !.pc = "check"]
    /\ now' = LET later == PlusDays(now, CHECK_INTERVAL_SECONDS \div 86400)
              IN IF Le(later, ControllerHorizon) THEN later ELSE now
    /\ UNCHANGED <<keyVars, licenses, subscriptions, artifact, response,
                   LICENSE_FILE_PATH, validator>>

\* the operator puts a file in place, or removes it, between two ticks
InstallFile(file) ==
    /\ controller.pc = "check"
    /\ LICENSE_FILE_PATH' = file
    /\ UNCHANGED <<keyVars, licVars, response, controller, validator>>

LocalFiles ==
    {None, Some(NotJson)} \cup {Some(JsonDump(v)) : v \in LicenseValues}

ControllerIdle == ControllerState("check", -1, None, 0, None)

(***************************************************************************)
(* Standalone validator, validators/validator.py.                          *)
(***************************************************************************)
\* line 12: the private master key written into the generated validator, here
\* the one of the key pair made at the first start of the service
MASTER_PRIVATE_KEY == Priv(1)

\* the names package cryptography.hazmat.primitives offers to "from ... import"
PrimitivesNames ==
    {"asymmetric", "ciphers", "cmac", "constant_time", "hashes", "hmac", "kdf",
     "keywrap", "padding", "poly1305", "serialization", "twofactor"}

\* from cryptography.hazmat.primitives import <names>: ImportError on a name
\* the package does not have
ImportRaises(names) == names \ PrimitivesNames # {}

\* validator.py hybrid_decrypt, lines 14-45
ValidatorDecryptRaises(encrypted_data, private_key_b64) ==
    IF ImportRaises({"ciphers", "algorithms", "modes"}) THEN "ImportError"
    ELSE IF hybrid_decrypt_raises(encrypted_data, private_key_b64) THEN "ValueError"
    ELSE ""

\* lines 83-88: public_key.verify(signature, text, PKCS1v15, SHA256)
VerifyPKCS1v15(payload, signature, license_key) ==
    /\ signature.padding = "PKCS1v15"
    /\ SamePair(license_key, signature.by)
    /\ signature.signed = payload

\* datetime.fromisoformat gives an aware datetime only for a text with an offset;
\* IsoFormat writes none
IsAware(text) == Len(text) > 6

\* lines 93-95: 23:59:59 of the day issued_at.day + validity_days - 1, cut at 28
\* in February, at 30 in a 30-day month, at 31 otherwise
ValidatorExpiry(issued_at, validity_days) ==
    [issued_at EXCEPT
        !.sec = 86399,
        !.day = LET last == IF issued_at.month = 2 THEN 28
                            ELSE IF issued_at.month \in {4, 6, 9, 11} THEN 30 ELSE 31
                    wanted == issued_at.day + validity_days - 1
                IN IF wanted < last THEN wanted ELSE last]

\* lines 69-125: one reading of the file.  checked tells how far it came:
\* "valid", "expired", or the exception that ended it; signature tells
\* whether line 83 accepted the signature.
FileReading(checked, signature) == [checked |-> checked, signature |-> signature]

ReadLicenseFile(encrypted_content, license_key, at) ==
    LET raised(e) == FileReading(e, "not reached")
        passed(e) == FileReading(e, "accepted")
    IN
    IF ValidatorDecryptRaises(encrypted_content, MASTER_PRIVATE_KEY) # ""
    THEN raised(ValidatorDecryptRaises(encrypted_content, MASTER_PRIVATE_KEY))
    ELSE LET decrypted_content == hybrid_decrypt(encrypted_content, MASTER_PRIVATE_KEY) IN
    IF JsonLoadsRaises(decrypted_content) THEN raised("JSONDecodeError")
    ELSE LET data == JsonLoads(decrypted_content) IN
    IF data.t # "dict" THEN raised("TypeError")
    ELSE IF ~DictHas(data, "license") \/ ~DictHas(data, "signature") THEN raised("KeyError")
    ELSE LET license == DictGet(data, "license")
             license_json == JsonDumps(license, Compact)
         IN
    IF DictGet(data, "signature").t # "str" THEN raised("TypeError")
    ELSE IF ~VerifyPKCS1v15(license_json, DictGet(data, "signature").v, license_key)
    THEN FileReading("InvalidSignature", "rejected")
    ELSE IF license.t # "dict" THEN passed("TypeError")
    ELSE IF ~DictHas(license, "issued_at") \/ ~DictHas(license, "validity_days")
    THEN passed("KeyError")
    ELSE IF DictGet(license, "issued_at").t # "str" THEN passed("AttributeError")
    ELSE IF DictGet(license, "validity_days").t # "int" THEN passed("TypeError")
    ELSE LET issued_at_str == DictGet(license, "issued_at").v
             validity_days == DictGet(license, "validity_days").v
             issued_at == FromIsoFormat(issued_at_str)
         IN
    IF issued_at.day + validity_days - 1 < 1 THEN passed("ValueError")
    \* line 97: an aware now against a naive expiry_date
    ELSE IF ~IsAware(issued_at_str) THEN passed("TypeError")
    ELSE IF Instant(at) > Instant(ValidatorExpiry(issued_at, validity_days))
    THEN passed("expired")
    ELSE passed("valid")

\* download_license, lines 127-144: the request fails, or its content is
\* written to license_file
DownloadFailed == [ok |-> FALSE, content |-> None]
Downloaded(content) == [ok |-> TRUE, content |-> Some(content)]

ValidatorState(pc_, license_key, license_file, downloaded, downloads, passes, result) ==
    [pc |-> pc_, license_key |-> license_key, license_file |-> license_file,
     downloaded |-> downloaded, downloads |-> downloads, passes |-> passes,
     result |-> result]

ValidatorIdle == ValidatorState("idle", EmptyString, None, FALSE, 0, 0, None)

\* passes and downloads one run is followed for
MaxPasses == 4

\* the deployed side apart from the validator, and the server side
besideValidator == <<keyVars, licVars, response, LICENSE_FILE_PATH, controller>>

\* lines 48-54: a run starts; without LICENSE_KEY it ends at once with False
ValidatorStart(license_key) ==
    /\ validator.pc \in {"idle", "done"}
    /\ validator' =
          IF license_key = EmptyString
          THEN ValidatorState("done", license_key, validator.license_file,
                              FALSE, 0, 0, Some(FALSE))
          ELSE ValidatorState("validate_file", license_key, validator.license_file,
                              FALSE, 0, 0, None)
    /\ UNCHANGED besideValidator

\* return False / return True of validate_file
Returns(v, value) == [v EXCEPT !.pc = "done", !.result = Some(value)]

\* lines 58-67: validate_file is entered; a missing file is downloaded once
ValidatorEnter ==
    /\ validator.pc = "validate_file"
    /\ validator.passes < MaxPasses
    /\ LET entered == [validator EXCEPT !.passes = @ + 1] IN
       validator' =
          IF validator.license_file = None
          THEN IF validator.downloaded
               THEN Returns(entered, FALSE)
               ELSE [entered EXCEPT !.pc = "download_missing"]
          ELSE [entered EXCEPT !.pc = "read"]
    /\ UNCHANGED besideValidator

\* lines 98-108 and 115-125: an expired license or an exception
DownloadOnce(v) ==
    IF ~v.downloaded THEN [v EXCEPT !.pc = "download_retry"] ELSE Returns(v, FALSE)

\* lines 69-125: the file is opened, decrypted and checked
ValidatorRead ==
    /\ validator.pc = "read"
    /\ validator' =
          IF validator.license_file = None
          THEN DownloadOnce(validator)          \* open raises FileNotFoundError
          ELSE LET reading == ReadLicenseFile(validator.license_file[1],
                                              validator.license_key, now)
               IN IF reading.checked = "valid"
                  THEN Returns(validator, TRUE)
                  ELSE DownloadOnce(validator)
    /\ UNCHANGED besideValidator

\* a download that leaves the flag downloaded as it was
ForgetsDownload(v, content) ==
    [v EXCEPT !.license_file = content,
              !.pc = IF v.pc = "download_missing" THEN "read" ELSE "validate_file"]

\* lines 67, 104-105, 121-122: downloaded = True; the call at line 63 goes on
\* to line 69, the calls at lines 100 and 117 enter validate_file again
AfterDownload(v, content) ==
    [v EXCEPT !.license_file = content,
              !.downloaded = TRUE,
              !.pc = IF v.pc = "download_missing" THEN "read" ELSE "validate_file"]

\* download_license, lines 127-144, and the lines after its three calls
ValidatorDownload(outcome) ==
    /\ validator.pc \in {"download_missing", "download_retry"}
    /\ validator.downloads < MaxPasses
    /\ LET asked == [validator EXCEPT !.downloads = @ + 1] IN
       validator' = IF ~outcome.ok THEN Returns(asked, FALSE)
                    ELSE AfterDownload(asked, outcome.content)
    /\ UNCHANGED besideValidator

\* someone removes ./license.lic
RemoveFile ==
    /\ validator.license_file # None
    /\ validator' = [validator EXCEPT !.license_file = None]
    /\ UNCHANGED besideValidator

\* the rows the database holds at the start: one monthly subscription, a
\* license without subscription and a license linked to the subscription
Subscription1 == SubscriptionRow("active", DT(2024, 1, 1, 86399), None, "P_month")

StoredSubscriptions ==
    [s \in SubscriptionIds |-> IF s = "S1" THEN Some(Subscription1) ELSE None]

StoredLicenses ==
    [id \in {"L1", "L2"} |->
        IF id = "L1"
        THEN LicenseRow("L1", 201, None, Some(DT(2024, 1, 1, 86399)), Some(30), Payload1)
        ELSE LicenseRow("L2", 202, Some("S1"), Some(Subscription1.issue_date),
                        Some(CreateValidityDays(Subscription1)), Payload2)]

\* the master_keys table after the first start of the service
FirstMasterKeys ==
    LET pair == generate_rsa_keypair(<<>>) IN InsertMasterKey(<<>>, pair[1], pair[2])

\* files that may lie at ./license.lic or come back from the download URL: the
\* issuer's files for the two stored licenses, text that is no JSON sealed for
\* the validator's key, and a file sealed for another key
ValidatorFiles ==
    {IssueReply(B64Encode(Pub(k)), StoredLicenses, StoredSubscriptions,
                FirstMasterKeys).file[1] : k \in {201, 202}}
    \cup {hybrid_encrypt(NotJson, Pub(1)), hybrid_encrypt(NotJson, Pub(2))}

\* values of LICENSE_KEY: unset, the key of a license, a key of no license
ValidatorKeys == {EmptyString, Pub(201), Pub(299)}

\* download_license returns False, or has written the content of the response
DownloadOutcomes == {DownloadFailed} \cup {Downloaded(c) : c \in ValidatorFiles}

(***************************************************************************)
(* crypto_utils.hybrid_encrypt and hybrid_decrypt at the level of bytes.   *)
(* A str is the sequence of its code points, bytes are a sequence of       *)
(* 0 .. 255.  hybrid_encrypt above is what the requests see of it: which   *)
(* key the result is wrapped for and which text it seals.                  *)
(***************************************************************************)
MaxPlainLen == 2        \* code points of the longest plaintext

\* the wire format: aes_encrypted = iv + tag + ciphertext
AesKeyLen == 32
IvLen == 12
TagLen == 16
Colon == 58

IsSurrogate(cp) == cp >= 55296 /\ cp <= 57343

\* str.encode('utf-8'): UnicodeEncodeError on a lone surrogate
Utf8EncodeRaises(s) == \E i \in DOMAIN s : IsSurrogate(s[i])

Utf8Bytes(cp) ==
    IF cp < 128 THEN <<cp>>
    ELSE IF cp < 2048 THEN <<192 + (cp \div 64), 128 + (cp % 64)>>
    ELSE IF cp < 65536
    THEN <<224 + (cp \div 4096), 128 + ((cp \div 64) % 64), 128 + (cp % 64)>>
    ELSE <<240 + (cp \div 262144), 128 + ((cp \div 4096) % 64),
           128 + ((cp \div 64) % 64), 128 + (cp % 64)>>

RECURSIVE Utf8Encode(_)
Utf8Encode(s) == IF s = <<>> THEN <<>> ELSE Utf8Bytes(Head(s)) \o Utf8Encode(Tail(s))

\* bytes.decode('utf-8') of well-formed UTF-8
RECURSIVE Utf8Decode(_)
Utf8Decode(b) ==
    IF b = <<>> THEN <<>>
    ELSE IF b[1] < 128 THEN <<b[1]>> \o Utf8Decode(SubSeq(b, 2, Len(b)))
    ELSE IF b[1] < 224
    THEN <<(b[1] - 192) * 64 + (b[2] - 128)>> \o Utf8Decode(SubSeq(b, 3, Len(b)))
    ELSE IF b[1] < 240
    THEN <<(b[1] - 224) * 4096 + (b[2] - 128) * 64 + (b[3] - 128)>>
         \o Utf8Decode(SubSeq(b, 4, Len(b)))
    ELSE <<(b[1] - 240) * 262144 + (b[2] - 128) * 4096 + (b[3] - 128) * 64
           + (b[4] - 128)>>
         \o Utf8Decode(SubSeq(b, 5, Len(b)))

\* the base64 alphabet as code points: A-Z a-z 0-9 + /, and = for padding
B64Char(i) ==
    IF i < 26 THEN 65 + i
    ELSE IF i < 52 THEN 97 + (i - 26)
    ELSE IF i < 62 THEN 48 + (i - 52)
    ELSE IF i = 62 THEN 43 ELSE 47
B64Pad == 61
B64Index(c) == CHOOSE i \in 0 .. 63 : B64Char(i) = c

\* base64.b64encode(b).decode('utf-8')
RECURSIVE B64EncodeBytes(_)
B64EncodeBytes(b) ==
    IF b = <<>> THEN <<>>
    ELSE IF Len(b) = 1
    THEN <<B64Char(b[1] \div 4), B64Char((b[1] % 4) * 16), B64Pad, B64Pad>>
    ELSE IF Len(b) = 2
    THEN <<B64Char(b[1] \div 4), B64Char((b[1] % 4) * 16 + (b[2] \div 16)),
           B64Char((b[2] % 16) * 4), B64Pad>>
    ELSE <<B64Char(b[1] \div 4), B64Char((b[1] % 4) * 16 + (b[2] \div 16)),
           B64Char((b[2] % 16) * 4 + (b[3] \div 64)), B64Char(b[3] % 64)>>
         \o B64EncodeBytes(SubSeq(b, 4, Len(b)))

\* base64.b64decode(text) of padded base64 text
RECURSIVE B64DecodeBytes(_)
B64DecodeBytes(t) ==
    IF Len(t) < 4 THEN <<>>
    ELSE LET a == B64Index(t[1])
             b == B64Index(t[2])
             first == <<a * 4 + (b \div 16)>>
         IN IF t[3] = B64Pad THEN first
            ELSE LET c == B64Index(t[3])
                     second == <<(b % 16) * 16 + (c \div 4)>>
                 IN IF t[4] = B64Pad THEN first \o second
                    ELSE first \o second \o <<(c % 4) * 64 + B64Index(t[4])>>
                         \o B64DecodeBytes(SubSeq(t, 5, Len(t)))

\* AES-GCM as a keyed byte-wise cipher with a tag over key, IV and ciphertext
KeyStream(aes_key, iv, i) == (aes_key[1] * 31 + iv[1] * 7 + i * 13) % 256
GcmEncrypt(aes_key, iv, plain) ==
    [i \in DOMAIN plain |-> (plain[i] + KeyStream(aes_key, iv, i)) % 256]
GcmDecrypt(aes_key, iv, ciphertext) ==
    [i \in DOMAIN ciphertext |-> (ciphertext[i] + 256 - KeyStream(aes_key, iv, i)) % 256]
RECURSIVE SumBytes(_)
SumBytes(b) == IF b = <<>> THEN 0 ELSE (Head(b) + SumBytes(Tail(b))) % 256
GcmTag(aes_key, iv, ciphertext) ==
    [j \in 1 .. TagLen |-> (SumBytes(ciphertext) + aes_key[1] + iv[1] + j) % 256]

\* RSA-OAEP of the AES key: only the private half of the same pair opens it
RsaEncrypt(rsa_public_key, aes_key) == <<(rsa_public_key[2] % 256)>> \o aes_key
RsaDecryptRaises(rsa_private_key, encrypted_aes_key) ==
    encrypted_aes_key = <<>> \/ encrypted_aes_key[1] # (rsa_private_key[2] % 256)
RsaDecrypt(rsa_private_key, encrypted_aes_key) == Tail(encrypted_aes_key)

\* hybrid_encrypt, lines 243-277; aes_key and iv are what os.urandom returned
HybridEncryptText(data, rsa_public_key, aes_key, iv) ==
    LET ciphertext == GcmEncrypt(aes_key, iv, Utf8Encode(data))
        tag == GcmTag(aes_key, iv, ciphertext)
        aes_encrypted == iv \o tag \o ciphertext
        encrypted_aes_key == RsaEncrypt(rsa_public_key, aes_key)
    IN B64EncodeBytes(encrypted_aes_key) \o <<Colon>> \o B64EncodeBytes(aes_encrypted)

\* str.split(":", 1)
SplitAtFirstColon(text) ==
    IF \A i \in DOMAIN text : text[i] # Colon THEN <<text>>
    ELSE LET k == CHOOSE i \in DOMAIN text :
                      text[i] = Colon /\ \A j \in 1 .. i - 1 : text[j] # Colon
         IN <<SubSeq(text, 1, k - 1), SubSeq(text, k + 1, Len(text))>>

\* a reading of aes_encrypted that takes the tag for 12 bytes long
NarrowTag(aes_encrypted) ==
    [iv |-> SubSeq(aes_encrypted, 1, IvLen),
     tag |-> SubSeq(aes_encrypted, IvLen + 1, IvLen + IvLen),
     ciphertext |-> SubSeq(aes_encrypted, IvLen + IvLen + 1, Len(aes_encrypted))]

\* lines 308-310: aes_encrypted[:12], [12:28], [28:]
Layout(aes_encrypted) ==
    [iv |-> SubSeq(aes_encrypted, 1, IvLen),
     tag |-> SubSeq(aes_encrypted, IvLen + 1, IvLen + TagLen),
     ciphertext |-> SubSeq(aes_encrypted, IvLen + TagLen + 1, Len(aes_encrypted))]

\* hybrid_decrypt, lines 279-316: the plaintext, or the exception raised
HybridDecryptText(encrypted_data, rsa_private_key) ==
    LET parts == SplitAtFirstColon(encrypted_data)
        result(raised, plaintext) == [raised |-> raised, plaintext |-> plaintext]
    IN IF Len(parts) # 2 THEN result("ValueError", <<>>)
       ELSE LET encrypted_aes_key == B64DecodeBytes(parts[1]) IN
       IF RsaDecryptRaises(rsa_private_key, encrypted_aes_key)
       THEN result("ValueError", <<>>)
       ELSE LET aes_key == RsaDecrypt(rsa_private_key, encrypted_aes_key)
                part == Layout(B64DecodeBytes(parts[2]))
            IN IF part.tag # GcmTag(aes_key, part.iv, part.ciphertext)
               THEN result("InvalidTag", <<>>)
               ELSE result("", Utf8Decode(GcmDecrypt(aes_key, part.iv, part.ciphertext)))

\* the arguments of a call of hybrid_encrypt and what os.urandom will return
CryptoInput(data, pair, aes_key, iv) ==
    [op |-> "input", data |-> data, pair |-> pair, aes_key |-> aes_key, iv |-> iv]

\* one call of hybrid_encrypt; the result is kept as the issued file
HybridEncrypt ==
    /\ response.op = "input"
    /\ IF Utf8EncodeRaises(response.data)
       THEN /\ response' = [op |-> "hybrid_encrypt", raised |-> "UnicodeEncodeError",
                            data |-> response.data, pair |-> response.pair]
            /\ artifact' = None
       ELSE /\ response' = [op |-> "hybrid_encrypt", raised |-> "",
                            data |-> response.data, pair |-> response.pair]
            /\ artifact' = Some(HybridEncryptText(response.data, Pub(response.pair),
                                                  response.aes_key, response.iv))
    /\ UNCHANGED <<keyVars, licenses, subscriptions, now, clientVars>>

\* one call of hybrid_decrypt on the kept result
HybridDecrypt(pair) ==
    /\ artifact # None
    /\ response.op = "hybrid_encrypt"
    /\ LET r == HybridDecryptText(artifact[1], Priv(pair))
       IN response' = [op |-> "hybrid_decrypt", raised |-> r.raised,
                       plaintext |-> r.plaintext, data |-> response.data,
                       pair |-> response.pair, with |-> pair]
    /\ UNCHANGED <<keyVars, licVars, clientVars>>

\* code points of the plaintexts: A, the colon, e-acute, the euro sign and an
\* emoji (the callers pass the ASCII text json.dumps returns)
CodePoints == {65, 58, 233, 8364, 128512}

RECURSIVE Strings(_)
Strings(n) ==
    IF n = 0 THEN {<<>>}
    ELSE Strings(n - 1) \cup {Append(s, c) : s \in Strings(n - 1), c \in CodePoints}

Plaintexts == Strings(MaxPlainLen)
CryptoPairs == {1, 2, 101}
AesKeys == {[i \in 1 .. AesKeyLen |-> k] : k \in {17, 200}}
Ivs == {[i \in 1 .. IvLen |-> IF i = 1 THEN v ELSE (v + i) % 256] : v \in {3, 250}}

(***************************************************************************)
(* Initial states.                                                         *)
(***************************************************************************)
\* nothing runs on the deployed side
DeployedIdle ==
    /\ LICENSE_FILE_PATH = None
    /\ controller = ControllerIdle
    /\ validator = ValidatorIdle

LicInit ==
    /\ subscriptions = StoredSubscriptions
    /\ licenses = StoredLicenses
    /\ now = DT(2024, 1, 30, 43200)
    /\ artifact = None
    /\ response = NoResponse

Threads == 1 .. MaxThreads

\* the handler a thread runs, with the key material of its request body
Handler(name, public_key, private_key) ==
    [name |-> name, public_key |-> public_key, private_key |-> private_key]
NoHandler == Handler("none", EmptyString, EmptyString)

IdleThreads ==
    /\ pc = [t \in Threads |-> "idle"]
    /\ handler = [t \in Threads |-> NoHandler]
    /\ observed = [t \in Threads |-> None]

\* an empty database, before the first start of the service
KeysInit ==
    /\ master_keys = <<>>
    /\ working = <<>>
    /\ IdleThreads
    /\ LicInit
    /\ DeployedIdle

\* the database after the first start of the service
Bootstrapped == FirstMasterKeys

Init ==
    /\ master_keys = Bootstrapped
    /\ working = Bootstrapped
    /\ IdleThreads
    /\ LicInit
    /\ DeployedIdle

\* license keys a client may present (one of them names no license)
PresentedKeys == {Pub(201), Pub(202), Pub(299)}

OverrideInputs == {EmptyString} \cup {Pub(k) : k \in OperatorPairs}
OverrideSecrets == {EmptyString} \cup {Priv(k) : k \in OperatorPairs}

KeysNext ==
    \/ Lifespan
    \/ \E su \in BOOLEAN : RotateMasterKey(su)
    \/ \E su \in BOOLEAN, pub \in OverrideInputs, priv \in OverrideSecrets :
          OverrideMasterKey(su, pub, priv)
    \/ \E su \in BOOLEAN : GetCurrentMasterPrivateKey(su)
    \/ \E key \in PresentedKeys : Serving /\ IssueLicenseFile(B64Encode(key))
    \/ \E key \in PresentedKeys : Serving /\ ValidateLicenseFile(B64Encode(key))
    \/ \E u \in LicenseUpdates : Serving /\ UpdateLicense("L2", u)

SpecKeys == KeysInit /\ [][KeysNext]_vars

Next ==
    \/ \E later \in Clock : Tick(later)
    \/ \E s \in SubscriptionIds, u \in SubscriptionUpdates : UpdateSubscription(s, u)
    \/ \E u \in LicenseUpdates : UpdateLicense("L2", u)
    \/ \E key \in PresentedKeys : IssueLicenseFile(B64Encode(key))
    \/ \E key \in PresentedKeys : ValidateLicenseFile(B64Encode(key))
    \/ \E key \in PresentedKeys : ValidateLicense(key)
    \/ \E l \in {"L1", "L2"} : ReadLicense(l)

Spec == Init /\ [][Next]_vars

(***************************************************************************)
(* Concurrent requests.  app/database.py builds the engine with            *)
(* StaticPool and check_same_thread=False for the default sqlite URL: the  *)
(* sessions of all request threads use one DBAPI connection, hence one     *)
(* transaction.  A statement of any session acts on `working`; a commit    *)
(* of any session makes `working` the committed table; closing a session   *)
(* (get_db's finally) rolls the connection back to the committed table.    *)
(***************************************************************************)
Writers == {"rotate_master_key", "override_master_key"}
ActiveReaders == {"get_current_master_private_key", "generate_validator_code"}
Readers == ActiveReaders \cup {"issue_license_file"}

\* lines 105 / 146: the UPDATE that deactivates the active rows
WriterDeactivate(t, h) ==
    /\ pc[t] = "idle"
    /\ h.name \in Writers
    /\ Len(working) < MaxMasterKeys
    /\ working' = DeactivateAll(working)
    /\ pc' = [pc EXCEPT ![t] = "insert"]
    /\ handler' = [handler EXCEPT ![t] = h]
    /\ UNCHANGED <<master_keys, observed, licVars, response>>
    /\ UNCHANGED clientVars

\* lines 108-118 / 149-156: db.add, then the INSERT that db.commit() flushes
WriterInsert(t) ==
    /\ pc[t] = "insert"
    /\ LET pair == IF handler[t].name = "rotate_master_key"
                   THEN generate_rsa_keypair(working)
                   ELSE <<handler[t].public_key, handler[t].private_key>>
       IN working' = InsertMasterKey(working, pair[1], pair[2])
    /\ pc' = [pc EXCEPT ![t] = "commit"]
    /\ UNCHANGED <<master_keys, handler, observed, licVars, response>>
    /\ UNCHANGED clientVars

\* lines 118 / 156: COMMIT on the shared connection
WriterCommit(t) ==
    /\ pc[t] = "commit"
    /\ master_keys' = working
    /\ pc' = [pc EXCEPT ![t] = "close"]
    /\ UNCHANGED <<working, handler, observed, licVars, response>>
    /\ UNCHANGED clientVars

\* lines 175, 296 (active row) and 262 (first row): the SELECT of a reader
ReaderQuery(t, h) ==
    /\ pc[t] = "idle"
    /\ h.name \in Readers
    /\ observed' = [observed EXCEPT ![t] =
                        IF h.name \in ActiveReaders THEN QueryFirstActive(working)
                        ELSE QueryFirst(working)]
    /\ pc' = [pc EXCEPT ![t] = "close"]
    /\ handler' = [handler EXCEPT ![t] = h]
    /\ UNCHANGED <<master_keys, working, licVars, response>>
    /\ UNCHANGED clientVars

\* app/database.py get_db, lines 30-31: db.close() rolls the connection back
CloseSession(t) ==
    /\ pc[t] = "close"
    /\ working' = master_keys
    /\ pc' = [pc EXCEPT ![t] = "idle"]
    /\ handler' = [handler EXCEPT ![t] = NoHandler]
    /\ observed' = [observed EXCEPT ![t] = None]
    /\ UNCHANGED <<master_keys, licVars, response>>
    /\ UNCHANGED clientVars

WriterRequests ==
    {Handler("rotate_master_key", EmptyString, EmptyString)}
    \cup {Handler("override_master_key", Pub(k), Priv(k)) : k \in OperatorPairs}

ReaderRequests == {Handler(name, EmptyString, EmptyString) : name \in Readers}

WritersNext ==
    \/ \E t \in Threads, h \in WriterRequests : WriterDeactivate(t, h)
    \/ \E t \in Threads : WriterInsert(t)
    \/ \E t \in Threads : WriterCommit(t)
    \/ \E t \in Threads : CloseSession(t)

ConcNext ==
    \/ WritersNext
    \/ \E t \in Threads, h \in ReaderRequests : ReaderQuery(t, h)

\* rotations and overrides only
SpecWriters == Init /\ [][WritersNext]_vars

\* rotations, overrides and the requests that read the master key
SpecConc == Init /\ [][ConcNext]_vars

(***************************************************************************)
(* Properties.                                                             *)
(***************************************************************************)
IssuedFile == response.op = "issue_license_file" /\ response.status = 200

\* C1: issue_license_file seals the artifact for the public key of the master
\* key row that is active when it runs, never for a deactivated row.
C1_IssueUsesActiveKey ==
    IssuedFile =>
        \E i \in ActiveRows(master_keys) :
            response.file[1].wrapped_for = master_keys[i].public_key

\* C2: under sequential startup, rotate and override requests at most one
\* master key row is active.
C2_AtMostOneActive == Cardinality(ActiveRows(master_keys)) <= 1

C2_RotatedOrOverridden ==
    /\ response.op \in {"rotate_master_key", "override_master_key"}
    /\ response.status = 200
    /\ Len(master_keys) >= 2
    /\ Cardinality(ActiveRows(master_keys)) = 1

\* C3: when rotate/override requests interleave their statements, no
\* committed table holds two active master key rows.
C3_CommittedAtMostOneActive ==
    \A i, j \in DOMAIN master_keys :
        (master_keys[i].is_active /\ master_keys[j].is_active) => i = j

\* C4: a request that reads the active master key while a rotation or an
\* override is in progress always finds an active row.
C4_ReaderFindsActiveKey ==
    \A t \in Threads :
        (pc[t] = "close" /\ handler[t].name \in ActiveReaders) => observed[t] # None

\* the report of validate_license_file on a file it could open
FileReportReady ==
    /\ response.op = "validate_license_file"
    /\ response.parsing = "success"
    /\ response.license_info # None

ReportedClaims == response.license_info[1]
ReportedLink == DictGet(ReportedClaims, "linked_subscription")

\* the license row a presented (base64) key names
PresentedLicense(encoded_key) == QueryLicenseByKey(licenses, B64Decode(encoded_key))

\* the window a verification computed equals the one issuance writes
SameWindow(issued, check) ==
    /\ check.raised = ""
    /\ check.validity_days = issued.validity_days
    /\ \/ check.expiry = None /\ issued.expiry = None
       \/ /\ check.expiry # None /\ issued.expiry # None
          /\ IsoFormat(check.expiry[1]) = issued.expiry[1]

LiveSubscription(db_license) ==
    /\ db_license.linked_subscription # None
    /\ get_subscription(subscriptions, db_license.linked_subscription[1]) # None
    /\ IssueWindow(db_license, subscriptions).raised = ""

LiveActiveSubscription(db_license) ==
    /\ LiveSubscription(db_license)
    /\ get_subscription(subscriptions, db_license.linked_subscription[1])[1].status = "active"

\* C5: for a subscription-linked license, the validity-days and expiry that
\* issue_license_file writes equal the ones validate_license_file,
\* validate_license and get_license_with_tenant compute from the same state.
C5_CallSitesAgree ==
    /\ FileReportReady =>
          LET found == PresentedLicense(response.license_key) IN
          \/ found = None
          \/ ~LiveActiveSubscription(found[1])
          \/ ReportedLink # OptStr(found[1].linked_subscription)
          \/ SameWindow(IssueWindow(found[1], subscriptions), response.check)
    /\ (response.op = "validate_license" /\ response.status # 404) =>
          LET found == QueryLicenseByKey(licenses, response.license_key) IN
          \/ ~LiveActiveSubscription(found[1])
          \/ SameWindow(IssueWindow(found[1], subscriptions), response.check)
    /\ (response.op = "read_license" /\ response.status # 404) =>
          \/ ~LiveSubscription(licenses[response.license_id])
          \/ /\ response.window.raised = ""
             /\ response.window.validity_days =
                    IssueWindow(licenses[response.license_id], subscriptions).validity_days

\* C6: an artifact without linked subscription that carries issued_at and
\* validity_days is reported valid exactly when
\* now <= issued_at + (validity_days - 1) days.
C6_StandardValidity ==
    (/\ FileReportReady
     /\ ReportedLink = PyNone
     /\ DictGet(ReportedClaims, "issued_at").t = "str"
     /\ DictGet(ReportedClaims, "validity_days").t = "int")
    => (response.validity = "valid"
        <=> Le(now, PlusDays(FromIsoFormat(DictGet(ReportedClaims, "issued_at").v),
                             DictGet(ReportedClaims, "validity_days").v - 1)))

\* C7: an artifact linked to an active subscription with an explicit end date
\* is reported valid exactly when now <= end date.
C7_EndDateValidity ==
    (/\ FileReportReady
     /\ ReportedLink.t = "str"
     /\ get_subscription(subscriptions, ReportedLink.v) # None
     /\ get_subscription(subscriptions, ReportedLink.v)[1].status = "active"
     /\ get_subscription(subscriptions, ReportedLink.v)[1].end_date # None)
    => (response.validity = "valid"
        <=> Le(now, get_subscription(subscriptions, ReportedLink.v)[1].end_date[1]))

\* claims objects that name subscription s and differ in what was baked in
AlternativeClaims(s) ==
    {PyDict(<<<<"id", PyStr("L2")>>, <<"tenant_id", PyStr(Tenant1)>>,
              <<"linked_subscription", PyStr(s)>>, <<"issued_at", i>>,
              <<"validity_days", d>>, <<"payload", Payload2>>>> \o e) :
        i \in {PyNone} \cup {PyStr(IsoFormat(x)) : x \in IssueDates},
        d \in {PyNone, PyInt(1), PyInt(366)},
        e \in {<<>>} \cup {<<<<"expires_at", PyStr(IsoFormat(x))>>>> : x \in Clock}}

\* C8: for an artifact with a linked subscription the reported validity depends
\* on the current subscription record and on now only, not on the issued_at,
\* validity_days or expires_at written into the artifact.
C8_ValidityFromLiveSubscription ==
    (FileReportReady /\ ReportedLink.t = "str")
    => \A alt \in AlternativeClaims(ReportedLink.v) :
           FileValidity(alt, subscriptions, now).validity = response.validity

\* an artifact whose written expiry has passed is reported valid, because the
\* subscription was updated after the artifact was issued
C8_UpdateTookEffect ==
    /\ FileReportReady
    /\ ReportedLink.t = "str"
    /\ DictHas(ReportedClaims, "expires_at")
    /\ ~Le(now, FromIsoFormat(DictGet(ReportedClaims, "expires_at").v))
    /\ response.validity = "valid"

\* C9: when the linked subscription does not exist or is not "active",
\* validate_license_file and validate_license report the license not valid.
C9_InactiveSubscriptionInvalid ==
    /\ (/\ FileReportReady
        /\ ReportedLink.t = "str"
        /\ \/ get_subscription(subscriptions, ReportedLink.v) = None
           \/ get_subscription(subscriptions, ReportedLink.v)[1].status # "active")
       => response.validity = "invalid"
    /\ (response.op = "validate_license" /\ response.status # 404) =>
          LET db_license == QueryLicenseByKey(licenses, response.license_key)[1] IN
          \/ db_license.linked_subscription = None
          \/ LET found == get_subscription(subscriptions,
                                           db_license.linked_subscription[1])
             IN found # None /\ found[1].status = "active"
          \/ (response.status = 200 /\ ~response.valid)

\* a subscription that is not active, on dates that would otherwise be valid
C9_InactiveWithinWindow ==
    /\ FileReportReady
    /\ ReportedLink.t = "str"
    /\ LET found == get_subscription(subscriptions, ReportedLink.v) IN
       /\ found # None
       /\ found[1].status = "trialing"
       /\ found[1].plan_id = "P_year"
       /\ found[1].end_date = None
       /\ ~ReplaceYearRaises(found[1].issue_date)
       /\ Le(now, PlusDays(found[1].issue_date, 364))
    /\ response.validity = "invalid"

\* the presented key is the key of the license the open file was issued for
OwnKeyPresented ==
    /\ response.op = "validate_license_file"
    /\ artifact # None
    /\ LET found == PresentedLicense(response.license_key)
           sealed == JsonLoads(artifact[1].sealed)
       IN /\ found # None
          /\ DictGet(DictGet(sealed, "license"), "id") = PyStr(found[1].id)

\* C10: an artifact of issue_license_file, submitted unchanged with the key of
\* its own license, is reported parsing = success and signature = verified.
C10_OwnArtifactVerifies ==
    OwnKeyPresented => (response.parsing = "success" /\ response.signature = "verified")

C10_OwnArtifactSubmitted ==
    /\ OwnKeyPresented
    /\ response.signature = "verified"
    /\ DictHas(ReportedClaims, "expires_at")

\* the presented key belongs to a stored license other than the one the open
\* file was issued for
ForeignKeyPresented ==
    /\ response.op = "validate_license_file"
    /\ artifact # None
    /\ LET found == PresentedLicense(response.license_key)
           sealed == JsonLoads(artifact[1].sealed)
       IN /\ found # None
          /\ DictGet(DictGet(sealed, "license"), "id") # PyStr(found[1].id)

\* C11: the artifact issued for license A, submitted with the public key of a
\* different stored license B, is reported parsing = success and
\* signature = verification_failed.
C11_ForeignKeyFailsSignature ==
    ForeignKeyPresented =>
        (response.parsing = "success" /\ response.signature = "verification_failed")

C11_ForeignKeySubmitted ==
    /\ ForeignKeyPresented
    /\ response.parsing = "success"
    /\ response.signature = "verification_failed"
    /\ Len(master_keys) >= 2

\* the report validate_license_file gives, in the current state, for the file
\* issue_license_file produces in the current state for the same license
FreshFileReport(license_key) ==
    LET issued == IssueReply(B64Encode(license_key), licenses, subscriptions, master_keys)
    IN IF issued.status # 200 THEN None
       ELSE Some(ValidateFileReply(B64Encode(license_key), issued.file[1], licenses,
                                   subscriptions, master_keys, now))

\* C12: for a stored license with an active tenant, validate_license returns a
\* report, and declares the license valid exactly when validate_license_file
\* reports validity = valid for a freshly issued artifact at the same instant.
C12_RecordAgreesWithFile ==
    (response.op = "validate_license" /\ response.status # 404) =>
        /\ response.status = 200
        /\ LET fresh == FreshFileReport(response.license_key) IN
           fresh # None => (response.valid <=> fresh[1].validity = "valid")

(***************************************************************************)
(* create_license (routers/licenses.py 40-69, crud.py 85-142) and the      *)
(* request schemas LicenseCreate / LicenseUpdate (schemas.py 65-156).      *)
(* A request body is a record whose domain is the set of fields the body   *)
(* sets; a field set to null holds None.                                   *)
(***************************************************************************)
\* ids and key pairs of the rows of the license table, in creation order
LicenseIds == <<"L1", "L2", "L3", "L4", "L5", "L6">>
NewLicenseId(lics) == LicenseIds[Cardinality(DOMAIN lics) + 1]
generate_license_keypair(lics) == 200 + Cardinality(DOMAIN lics) + 1

\* the fields declared before linked_subscription: a field validator sees in
\* values.data only the fields validated before its own
ValidatedBefore == {"tenant_id", "template_id"}

SeenByValidator(body, field) ==
    IF field \in ValidatedBefore /\ field \in DOMAIN body THEN body[field] ELSE None

\* a field validator runs only for a field the body sets
ValidatorRuns(body) == "linked_subscription" \in DOMAIN body

\* Field(None, gt=0)
ValidityDaysRejected(body) ==
    /\ "validity_days" \in DOMAIN body
    /\ body.validity_days # None
    /\ body.validity_days[1] <= 0

\* LicenseCreate.validate_subscription_fields, schemas.py 95-111
LicenseCreateRejected(body) ==
    \/ /\ ValidatorRuns(body)
       /\ LET issued_at == SeenByValidator(body, "issued_at")
              validity_days == SeenByValidator(body, "validity_days")
          IN IF body.linked_subscription # None
             THEN issued_at # None \/ validity_days # None
             ELSE issued_at = None \/ validity_days = None
    \/ ValidityDaysRejected(body)

\* LicenseUpdate.validate_subscription_fields, schemas.py 143-156
LicenseUpdateRejected(body) ==
    \/ /\ ValidatorRuns(body)
       /\ body.linked_subscription # None
       /\ \/ SeenByValidator(body, "issued_at") # None
          \/ SeenByValidator(body, "validity_days") # None
    \/ ValidityDaysRejected(body)

\* license.model_dump(): every field of the schema, unset ones None
ModelDump(body, field) == IF field \in DOMAIN body THEN body[field] ELSE None

get_tenant_license_count(lics, tenant_id) ==
    Cardinality({id \in DOMAIN lics : lics[id].tenant_id = tenant_id})

\* crud.create_license: the row it stores, or the exception it raises
CreateRow(body, lics, subs) ==
    LET id == NewLicenseId(lics)
        pair == generate_license_keypair(lics)
        linked == ModelDump(body, "linked_subscription")
        row(issued_at, validity_days) ==
            [raised |-> "",
             row |-> LicenseRow(id, pair, linked, issued_at, validity_days, body.payload)]
        failed(exception) ==
            [raised |-> exception,
             row |-> LicenseRow(id, pair, linked, None, None, body.payload)]
    IN IF linked = None
       THEN row(ModelDump(body, "issued_at"), ModelDump(body, "validity_days"))
       ELSE LET found == get_subscription(subs, linked[1]) IN
            IF found = None THEN failed("ValueError")
            ELSE LET plan == get_plan_definition(found[1].plan_id) IN
                 IF /\ found[1].end_date = None
                    /\ plan # None
                    /\ plan[1].billing_interval = "yearly"
                    /\ ReplaceYearRaises(found[1].issue_date)
                 THEN failed("ValueError")
                 ELSE row(Some(found[1].issue_date), Some(CreateValidityDays(found[1])))

CreateReply(body, lics, subs) ==
    LET reply(status, table) ==
            [op |-> "create_license", status |-> status, body |-> body, table |-> table]
    IN IF LicenseCreateRejected(body) THEN reply(422, lics)
       ELSE LET tenant == get_tenant(body.tenant_id) IN
       IF tenant = None THEN reply(404, lics)
       ELSE IF get_tenant_license_count(lics, body.tenant_id) >= tenant[1].max_licenses
       THEN reply(400, lics)
       ELSE LET made == CreateRow(body, lics, subs) IN
            IF made.raised # "" THEN reply(500, lics)
            ELSE reply(200, (made.row.id :> made.row) @@ lics)

CreateLicense(body) ==
    LET r == CreateReply(body, licenses, subscriptions) IN
    /\ licenses' = r.table
    /\ response' = [op |-> r.op, status |-> r.status, body |-> r.body,
                    before |-> licenses]
    /\ UNCHANGED <<keyVars, subscriptions, now, artifact>>
    /\ UNCHANGED clientVars

\* create_license on a thread of the worker pool: the handler is a plain def,
\* so two requests run side by side, each on its own session.
\* routers/licenses.py lines 46-54: the tenant and the count are read
CreateCheck(t, body) ==
    /\ pc[t] = "idle"
    /\ LET reply(status) ==
               [op |-> "create_license", status |-> status, body |-> body,
                before |-> licenses]
           tenant == get_tenant(body.tenant_id)
           turned_down ==
               IF LicenseCreateRejected(body) THEN 422
               ELSE IF tenant = None THEN 404
               ELSE IF get_tenant_license_count(licenses, body.tenant_id)
                          >= tenant[1].max_licenses
               THEN 400 ELSE 0
       IN IF turned_down # 0
          THEN /\ response' = reply(turned_down)
               /\ UNCHANGED <<pc, handler, observed>>
          ELSE /\ pc' = [pc EXCEPT ![t] = "insert"]
               /\ handler' = [handler EXCEPT ![t] =
                                 [name |-> "create_license", body |-> body]]
               /\ observed' = [observed EXCEPT ![t] =
                                  Some(get_tenant_license_count(licenses, body.tenant_id))]
               /\ UNCHANGED response
    /\ UNCHANGED <<master_keys, working, licVars>>
    /\ UNCHANGED clientVars

\* routers/licenses.py line 57, crud.py lines 85-142: the row is built, added
\* and committed; nothing reads the count again
CreateInsert(t) ==
    /\ pc[t] = "insert"
    /\ LET body == handler[t].body
           made == CreateRow(body, licenses, subscriptions)
       IN /\ licenses' = IF made.raised # "" THEN licenses
                         ELSE (made.row.id :> made.row) @@ licenses
          /\ response' = [op |-> "create_license",
                          status |-> IF made.raised # "" THEN 500 ELSE 200,
                          body |-> body, before |-> licenses]
    /\ pc' = [pc EXCEPT ![t] = "idle"]
    /\ handler' = [handler EXCEPT ![t] = NoHandler]
    /\ observed' = [observed EXCEPT ![t] = None]
    /\ UNCHANGED <<master_keys, working, subscriptions, now, artifact>>
    /\ UNCHANGED clientVars

\* PUT /licenses/{id}: the body is checked by LicenseUpdate before the handler
PutLicense(license_id, body) ==
    IF LicenseUpdateRejected(body)
    THEN /\ response' = [op |-> "update_license", status |-> 422]
         /\ UNCHANGED <<keyVars, licVars, clientVars>>
    ELSE UpdateLicense(license_id, body)

\* request bodies of the model
CreateBodies ==
    {[tenant_id |-> "T9", payload |-> Payload1, linked_subscription |-> Some("S1")]}
    \cup
    {[tenant_id |-> "T1", payload |-> Payload1] @@ extra :
        extra \in {<<>>,
                   [issued_at |-> Some(DT(2024, 1, 1, 86399)), validity_days |-> Some(30)],
                   [issued_at |-> Some(DT(2024, 1, 1, 86399)), validity_days |-> Some(0)],
                   [linked_subscription |-> None,
                    issued_at |-> Some(DT(2024, 1, 1, 86399)), validity_days |-> Some(30)],
                   [linked_subscription |-> Some("S1")],
                   [linked_subscription |-> Some("S2")],
                   [linked_subscription |-> Some("S1"),
                    issued_at |-> Some(DT(2024, 2, 29, 43200))],
                   [linked_subscription |-> Some("S1"), validity_days |-> Some(30)]}}

UpdateBodies ==
    LicenseUpdates
    \cup {[issued_at |-> None], [validity_days |-> None], [validity_days |-> Some(0)],
          [issued_at |-> Some(DT(2024, 2, 29, 43200)), validity_days |-> Some(7)],
          [linked_subscription |-> Some("S1"), validity_days |-> Some(7)]}

PlanUpdates ==
    {[plan_id |-> p] : p \in PlanIds} \cup {[issue_date |-> d] : d \in IssueDates}

LicensesNext ==
    \/ \E body \in CreateBodies : CreateLicense(body)
    \/ \E body \in UpdateBodies : PutLicense("L3", body)
    \/ \E s \in SubscriptionIds, u \in PlanUpdates : UpdateSubscription(s, u)
    \/ \E l \in {"L2", "L3"} : ReadLicense(l)

SpecLicenses == Init /\ [][LicensesNext]_vars

\* one of the two shapes a license row may have
LinkedShape(row) ==
    row.linked_subscription # None /\ row.issued_at = None /\ row.validity_days = None
StandardShape(row) ==
    row.linked_subscription = None /\ row.issued_at # None /\ row.validity_days # None

\* the rows the requests of this run have created or updated
Touched == {id \in DOMAIN licenses : id \notin {"L1", "L2"}}

\* C13: after any sequence of create_license and update_license calls every
\* stored license either has linked_subscription set and neither issued_at nor
\* validity_days, or has no linked_subscription and both issued_at and
\* validity_days.
C13_LicenseShape ==
    \A id \in Touched : LinkedShape(licenses[id]) \/ StandardShape(licenses[id])

\* what a creation request asks for
AsksLink(body) == ModelDump(body, "linked_subscription") # None
AsksDates(body) ==
    ModelDump(body, "issued_at") # None \/ ModelDump(body, "validity_days") # None
AsksBothDates(body) ==
    ModelDump(body, "issued_at") # None /\ ModelDump(body, "validity_days") # None

\* C14: a creation request that sets linked_subscription together with
\* issued_at or validity_days, or that sets neither linked_subscription nor
\* both of issued_at and validity_days, is rejected and leaves the license
\* table unchanged.
C14_BadCreateRejected ==
    (/\ response.op = "create_license"
     /\ \/ AsksLink(response.body) /\ AsksDates(response.body)
        \/ ~AsksLink(response.body) /\ ~AsksBothDates(response.body))
    => (response.status # 200 /\ licenses = response.before)

\* the claims object inside the file issue_license_file has just returned
IssuedClaims == DictGet(JsonLoads(response.file[1].sealed), "license")
IssuedFor == PresentedLicense(response.license_key)[1]

IssuedForLiveSubscription ==
    /\ IssuedFile
    /\ IssuedFor.linked_subscription # None
    /\ get_subscription(subscriptions, IssuedFor.linked_subscription[1]) # None

\* C15: for a subscription-linked license the issued_at written into the
\* artifact is the linked subscription's issue date at the time of issuance,
\* also when update_subscription changed that date after the license was
\* created.
C15_IssuedAtIsSubscriptionIssueDate ==
    IssuedForLiveSubscription =>
        DictGet(IssuedClaims, "issued_at") =
            PyStr(IsoFormat(get_subscription(subscriptions,
                                IssuedFor.linked_subscription[1])[1].issue_date))

\* issue_license_file was asked for a license whose subscription has no row
IssueWithoutSubscription ==
    /\ response.op = "issue_license_file"
    /\ response.status \notin {400, 404}
    /\ IssuedFor.linked_subscription # None
    /\ get_subscription(subscriptions, IssuedFor.linked_subscription[1]) = None

\* C16: issue_license_file for a license whose linked_subscription is set but
\* whose subscription cannot be found fails with an error and produces no
\* artifact.
C16_MissingSubscriptionFails ==
    IssueWithoutSubscription => (response.status # 200 /\ response.file = None)

(***************************************************************************)
(* The validity computation over the calendar: a subscription without end  *)
(* date, issued on any day of CalendarYears, on a monthly or yearly plan;  *)
(* a license is created for it, read and issued.                           *)
(***************************************************************************)
CalendarYears == 2023 .. 2025

CalendarDates ==
    {DT(y, m, d, 43200) : y \in CalendarYears, m \in 1 .. 12, d \in 1 .. 31}

CalendarInit ==
    /\ \E dt \in CalendarDates, p \in {"P_month", "P_year"} :
          /\ dt.day <= DaysInMonth(dt.year, dt.month)
          /\ subscriptions =
                [s \in SubscriptionIds |->
                    IF s = "S1" THEN Some(SubscriptionRow("active", dt, None, p))
                    ELSE None]
    /\ licenses =
          ("L1" :> LicenseRow("L1", 201, None, Some(DT(2024, 1, 1, 86399)), Some(30),
                              Payload1))
    /\ now = DT(2024, 1, 30, 43200)
    /\ artifact = None
    /\ response = NoResponse
    /\ DeployedIdle
    /\ master_keys = Bootstrapped
    /\ working = Bootstrapped
    /\ IdleThreads

CalendarNext ==
    \/ CreateLicense([tenant_id |-> "T1", payload |-> Payload2,
                      linked_subscription |-> Some("S1")])
    \/ IssueLicenseFile(B64Encode(Pub(202)))
    \/ ReadLicense("L2")

SpecCalendar == CalendarInit /\ [][CalendarNext]_vars

\* the subscription of the calendar runs
CalendarSubscription == subscriptions["S1"][1]

\* rows the last create_license request added
Created == {id \in DOMAIN licenses : id \notin DOMAIN response.before}

CreateAnswered(plan_id) ==
    /\ response.op = "create_license"
    /\ response.status # 400
    /\ CalendarSubscription.plan_id = plan_id

IssueAnswered(plan_id) ==
    /\ response.op = "issue_license_file"
    /\ response.status # 404
    /\ CalendarSubscription.plan_id = plan_id

\* C17: on a yearly plan without end date the validity-days computed for any
\* issue date, 29 February included, is the day count to the same calendar
\* date one year later, 365 or 366 (365 for 2024-03-01), and the computation
\* does not fail.
C17_YearlyDays ==
    LET issue == CalendarSubscription.issue_date
        good(days) ==
            /\ days \in {365, 366}
            /\ issue.day <= DaysInMonth(issue.year + 1, issue.month)
                  => days = ToOrdinal(DT(issue.year + 1, issue.month, issue.day, 0))
                            - ToOrdinal(issue)
            /\ (issue.year = 2024 /\ issue.month = 3 /\ issue.day = 1) => days = 365
    IN /\ CreateAnswered("P_year") =>
             /\ response.status = 200
             /\ \A id \in Created : /\ licenses[id].validity_days # None
                                    /\ good(licenses[id].validity_days[1])
       /\ IssueAnswered("P_year") =>
             /\ response.status = 200
             /\ DictGet(IssuedClaims, "validity_days").t = "int"
             /\ good(DictGet(IssuedClaims, "validity_days").v)

\* the lengths of the months of a year of CalendarYears (2024 is the leap year)
MonthLengths(y) ==
    <<31, IF y = 2024 THEN 29 ELSE 28, 31, 30, 31, 30, 31, 31, 30, 31, 30, 31>>

\* C18: on a monthly plan without end date the validity-days computed at
\* license creation and at issuance is the number of days of the month of the
\* subscription's issue date (29 for 2024-02-10), and the expiry is
\* issue date + (validity-days - 1) days.
C18_MonthlyDays ==
    LET issue == CalendarSubscription.issue_date
        days == MonthLengths(issue.year)[issue.month]
    IN /\ CreateAnswered("P_month") =>
             /\ response.status = 200
             /\ \A id \in Created : licenses[id].validity_days = Some(days)
       /\ IssueAnswered("P_month") =>
             /\ response.status = 200
             /\ DictGet(IssuedClaims, "validity_days") = PyInt(days)
             /\ DictHas(IssuedClaims, "expires_at")
             /\ Instant(FromIsoFormat(DictGet(IssuedClaims, "expires_at").v))
                    = Instant(issue) + (days - 1) * 86400

C18_LeapFebruaryIssued ==
    /\ IssueAnswered("P_month")
    /\ response.status = 200
    /\ CalendarSubscription.issue_date = DT(2024, 2, 10, 43200)
    /\ DictGet(IssuedClaims, "validity_days") = PyInt(29)
    /\ DictGet(IssuedClaims, "expires_at") = PyStr(<<2024, 3, 9, 12, 0, 0>>)
    /\ licenses["L2"].validity_days = Some(29)

(***************************************************************************)
(* validate_license_file on any upload: files a client can build from the  *)
(* master public key, next to the files the service issued.                *)
(***************************************************************************)
\* a signature of a key pair no license holds
StraySignature == sign_payload(JsonDumps(PyDict(<<>>), Compact), Priv(999))

\* claims a client wrote itself, naming subscription s
ForgedClaims(s) ==
    PyDict(<<<<"id", PyStr("L2")>>, <<"tenant_id", PyStr(Tenant1)>>,
             <<"linked_subscription", PyStr(s)>>, <<"issued_at", PyNone>>,
             <<"validity_days", PyNone>>, <<"payload", Payload2>>>>)

\* decrypted contents of the uploads of the model
UploadContents ==
    {NotJson,
     JsonDumps(PyList, Compact),
     JsonDumps(PyInt(5), Compact),
     JsonDumps(PyDict(<<>>), Compact),
     JsonDumps(PyDict(<<<<"signature", PyStr(StraySignature)>>>>), Compact),
     JsonDumps(PyDict(<<<<"license", PyInt(5)>>, <<"signature", PyInt(7)>>>>), Compact)}
    \cup {JsonDumps(PyDict(<<<<"license", ForgedClaims(s)>>>>), Compact) :
             s \in SubscriptionIds}
    \cup {JsonDumps(PyDict(<<<<"license", PyDict(<<<<"id", PyStr("L2")>>,
                                                    <<"payload", PyNaN>>>>)>>>>), Compact)}
    \cup {JsonDumps(PyDict(<<<<"license", ForgedClaims(s)>>,
                             <<"signature", PyStr(StraySignature)>>>>), Compact) :
             s \in SubscriptionIds}

\* the uploads: sealed for the master key, sealed for another key, or not in
\* the "key:data" format at all
Uploads(rows) ==
    {hybrid_encrypt(c, rows[1].public_key) : c \in UploadContents}
    \cup {hybrid_encrypt(JsonDumps(PyDict(<<>>), Compact), Pub(999)),
          [wrapped_for |-> EmptyString, sealed |-> NotJson]}

\* license keys as the form field carries them; the last one is not base64
FormKeys == {B64Encode(key) : key \in PresentedKeys} \cup {Pub(201)}

UploadLicenseFile(license_key, file) ==
    /\ response' = ValidateFileReply(license_key, file, licenses, subscriptions,
                                     master_keys, now)
                   @@ [license_key |-> license_key]
    /\ UNCHANGED <<keyVars, licVars>>
    /\ UNCHANGED clientVars

UploadsNext ==
    \/ \E key \in FormKeys, file \in Uploads(master_keys) : UploadLicenseFile(key, file)
    \/ \E key \in FormKeys : ValidateLicenseFile(key)
    \/ \E key \in PresentedKeys : IssueLicenseFile(B64Encode(key))
    \/ \E s \in SubscriptionIds, u \in PlanUpdates : UpdateSubscription(s, u)
    \/ \E u \in {[status |-> "canceled"]} : UpdateSubscription("S1", u)

SpecUploads == Init /\ [][UploadsNext]_vars

FileAnswered == response.op = "validate_license_file"

\* C19: validate_license_file answers every input with a report in which
\* parsing, signature and validity are all set; no exception leaves it.
C19_AlwaysAReport ==
    FileAnswered =>
        /\ response.parsing \in {"success", "failed"}
        /\ response.signature \in {"verified", "verification_failed"}
        /\ response.validity \in {"valid", "invalid"}

\* validate_license_file has returned a report (the response was rendered)
FileReported == FileAnswered /\ response.parsing \in {"success", "failed"}

\* C20: in every report of validate_license_file, parsing = failed implies
\* signature = verification_failed, validity = invalid and no license_info;
\* license_info is returned exactly when parsing = success.
C20_FailedParsingShortCircuits ==
    FileReported =>
        /\ response.parsing = "failed" =>
              /\ response.signature = "verification_failed"
              /\ response.validity = "invalid"
              /\ response.license_info = None
        /\ response.license_info # None <=> response.parsing = "success"

\* a failed report: an upload of a known license key that cannot be decrypted
C20_UndecryptableReported ==
    /\ FileReported
    /\ response.parsing = "failed"
    /\ response.error = "Failed to decrypt or parse license file"
    /\ response.license_info = None


(***************************************************************************)
(* The renewal loop on its own: the server side stays as it was started.   *)
(***************************************************************************)
ControllerInit ==
    /\ master_keys = Bootstrapped
    /\ working = Bootstrapped
    /\ IdleThreads
    /\ LicInit
    /\ LICENSE_FILE_PATH \in LocalFiles
    /\ controller = ControllerIdle
    /\ validator = ValidatorIdle

ControllerNext ==
    \/ ControllerCheck
    \/ ControllerRenew
    \/ ControllerSleep
    \/ \E file \in LocalFiles : InstallFile(file)

SpecController == ControllerInit /\ [][ControllerNext]_vars

\* the file is a SignedLicense: an object with encrypted_payload and signature
WellFormed(file) ==
    /\ file # None
    /\ ~JsonLoadsRaises(file[1])
    /\ SignedLicenseRaises(JsonLoads(file[1])) = ""

\* days from `at` to the expires_at of the payload the file seals
ArtifactRemaining(file, at) ==
    LET sealed == DictGet(JsonLoads(file[1]), "encrypted_payload").v.sealed
    IN days_until(DictGet(sealed, "expires_at").v, at)

\* the tick is over: the loop is about to sleep
TickDone == controller.pc = "sleep"

\* C21: a tick makes no fetch and leaves the file alone when the local file
\* is a well-formed license with more than RENEW_THRESHOLD_DAYS remaining,
\* and makes exactly one fetch otherwise
C21_FetchOnlyWhenDue ==
    TickDone =>
        IF /\ WellFormed(controller.before)
           /\ ArtifactRemaining(controller.before, now) > RENEW_THRESHOLD_DAYS
        THEN controller.fetches = 0 /\ LICENSE_FILE_PATH = controller.before
        ELSE controller.fetches = 1

\* the fetch of this tick returned status 200 with a body that is JSON
FetchSucceeded ==
    /\ controller.resp # None
    /\ controller.resp[1].raised = ""
    /\ controller.resp[1].status_code = 200
    /\ ~JsonLoadsRaises(controller.resp[1].text)

\* C22: after a tick whose fetch failed (exception, status other than 200, body
\* that is not JSON) the local file is what it was before the tick; only a
\* fetch that returned 200 with a parsable body changes the file
C22_FailedFetchKeepsFile ==
    TickDone => (FetchSucceeded \/ LICENSE_FILE_PATH = controller.before)

\* a tick over an existing file got status 200 with a body that is not JSON
C22_FetchFailedOverFile ==
    /\ TickDone
    /\ controller.before # None
    /\ controller.resp # None
    /\ controller.resp[1].raised = ""
    /\ controller.resp[1].status_code = 200
    /\ JsonLoadsRaises(controller.resp[1].text)
    /\ LICENSE_FILE_PATH = controller.before

\* the renewal loop under a scheduler that lets the task run: the file
\* read, the fetch (timeout=15) and the sleep each come to an end
SpecControllerLive ==
    /\ ControllerInit
    /\ [][ControllerNext]_vars
    /\ WF_vars(ControllerCheck)
    /\ WF_vars(ControllerRenew)
    /\ WF_vars(ControllerSleep)

\* C23: the loop has no way out: whatever a tick meets, the loop is at its
\* check, its fetch decision or its sleep; every check is followed by the
\* sleep of its tick, and every sleep by a new check
C23_LoopNeverStops ==
    /\ [](controller.pc \in {"check", "renew", "sleep"})
    /\ (controller.pc = "check") ~> (controller.pc = "renew")
    /\ (controller.pc = "renew") ~> (controller.pc = "sleep")
    /\ (controller.pc = "sleep") ~> (controller.pc = "check")

\* a tick whose write failed has been followed by its sleep and a new check
C23_CheckAfterFailedWrite ==
    /\ controller.pc = "check"
    /\ FetchSucceeded
    /\ LICENSE_FILE_PATH = Some(Truncated)
    /\ Instant(now) > Instant(DT(2024, 1, 30, 43200))

\* the last request was a rotation or an override that succeeded
KeyAdminSucceeded ==
    /\ response.op \in {"rotate_master_key", "override_master_key"}
    /\ response.status = 200

C25_BadOverrideRejected ==
    [][\A su \in BOOLEAN, pub \in OverrideInputs, priv \in OverrideSecrets :
          (/\ OverrideMasterKey(su, pub, priv)
           /\ (~su \/ pub = EmptyString \/ priv = EmptyString))
          => /\ response'.op = "override_master_key"
             /\ response'.status \in {400, 403}
             /\ master_keys' = master_keys
             /\ working' = working]_vars

\* an override with an empty key was turned down while an older key was
\* inactive and a newer one active
C25_EmptyKeyTurnedDown ==
    /\ response.op = "override_master_key"
    /\ response.status = 400
    /\ Len(master_keys) >= 2
    /\ ~master_keys[1].is_active
    /\ ActiveRows(master_keys) # {}

(***************************************************************************)
(* hybrid_encrypt followed by hybrid_decrypt, on their own.                *)
(***************************************************************************)
CryptoInit ==
    /\ master_keys = Bootstrapped
    /\ working = Bootstrapped
    /\ IdleThreads
    /\ subscriptions = [s \in SubscriptionIds |-> None]
    /\ licenses = <<>>
    /\ now = DT(2024, 1, 30, 43200)
    /\ artifact = None
    /\ response \in {CryptoInput(data, pair, aes_key, iv) :
                         data \in Plaintexts, pair \in CryptoPairs,
                         aes_key \in AesKeys, iv \in Ivs}
    /\ DeployedIdle

CryptoNext ==
    \/ HybridEncrypt
    \/ \E pair \in CryptoPairs : HybridDecrypt(pair)

SpecCrypto == CryptoInit /\ [][CryptoNext]_vars

\* hybrid_decrypt was called with the private half of the pair the text was
\* encrypted for
DecryptedWithOwnKey ==
    /\ response.op = "hybrid_decrypt"
    /\ response.with = response.pair

StandardArtifactChecked ==
    /\ OwnKeyPresented
    /\ PresentedLicense(response.license_key)[1].linked_subscription = None

\* what validators/validator.py makes of the same file, key and instant
ValidatorReading ==
    ReadLicenseFile(artifact[1], B64Decode(response.license_key), now)

\* C27: for an artifact issued for a license without subscription, the
\* standalone validator accepts the signature exactly when validate_license_file
\* reports signature = verified, and reports the license valid exactly when
\* validate_license_file reports signature = verified and validity = valid, at
\* the same now.
C27_ValidatorAgreesWithIssuer ==
    StandardArtifactChecked =>
        /\ (ValidatorReading.signature = "accepted"
              <=> response.signature = "verified")
        /\ (ValidatorReading.checked = "valid"
              <=> (response.signature = "verified" /\ response.validity = "valid"))

(***************************************************************************)
(* C28: the private key handed out for client-side validation.             *)
(***************************************************************************)
\* get_current_master_private_key has handed out a key; generate_validator_code
\* embeds the key of the same query (line 296)
PrivateKeyHandedOut ==
    /\ response.op = "get_current_master_private_key"
    /\ response.status = 200

\* C28: after any sequence of rotate_master_key and override_master_key calls,
\* the private key get_current_master_private_key hands out decrypts every
\* artifact issue_license_file produces in the same state.
C28_HandedOutKeyOpensArtifacts ==
    PrivateKeyHandedOut =>
        \A key \in PresentedKeys :
            LET issued == IssueReply(B64Encode(key), licenses, subscriptions, master_keys)
            IN issued.status = 200 =>
                  ~hybrid_decrypt_raises(issued.file[1], response.private_key[1])

(***************************************************************************)
(* C29: runs of the standalone validator.                                  *)
(***************************************************************************)
ValidatorInit ==
    /\ master_keys = Bootstrapped
    /\ working = Bootstrapped
    /\ IdleThreads
    /\ LicInit
    /\ LICENSE_FILE_PATH = None
    /\ controller = ControllerIdle
    /\ \E file \in {None} \cup {Some(f) : f \in ValidatorFiles} :
          validator = [ValidatorIdle EXCEPT !.license_file = file]

ValidatorNext ==
    \/ \E license_key \in ValidatorKeys : ValidatorStart(license_key)
    \/ ValidatorEnter
    \/ ValidatorRead
    \/ \E outcome \in DownloadOutcomes : ValidatorDownload(outcome)
    \/ RemoveFile
    \/ \E later \in Clock : Tick(later)

\* a run that is scheduled and whose download request comes back: each step
\* of validate_file and each call of download_license comes to an end
SpecValidator ==
    /\ ValidatorInit
    /\ [][ValidatorNext]_vars
    /\ WF_vars(ValidatorEnter)
    /\ WF_vars(ValidatorRead)
    /\ WF_vars(\E outcome \in DownloadOutcomes : ValidatorDownload(outcome))

ValidatorRunning ==
    validator.pc \in {"validate_file", "read", "download_missing", "download_retry"}

CreatesNext ==
    \/ \E t \in Threads, body \in CreateBodies : CreateCheck(t, body)
    \/ \E t \in Threads : CreateInsert(t)

SpecCreates == Init /\ [][CreatesNext]_vars

\* C30: the tenant's max_licenses stays as it is, and the number of license
\* rows of the tenant never exceeds it, whatever create_license requests run
\* and however they interleave between the count and the insert.
C30_LicenseLimitHolds ==
    get_tenant_license_count(licenses, Tenant1) <= get_tenant(Tenant1)[1].max_licenses
====
